---- MODULE Spec2Model ----
(***************************************************************************)
(* Request-scoped execution context, DataLoader batching, request cache    *)
(* and transaction reconciliation of the ORM core                          *)
(* (packages/core/src: utils/DataLoader.ts, cache/RequestCache.ts,         *)
(* context.ts, model/BaseModel.ts, model/repository.ts, model/factory.ts). *)
(*                                                                         *)
(* The specifications of this module share its variables:                  *)
(*   SpecLoader     one DataLoader with an arbitrary batch function;       *)
(*   Spec           a run, the repository's findById/findByIds/find/       *)
(*                  create/update/delete, relation loads, withTransaction; *)
(*   SpecRuns       interleaved runs of ORM contexts;                      *)
(*   SpecRepo       a run outside a transaction, its reads and writes;     *)
(*   SpecOutside    calls made with no run scope;                          *)
(*   SpecFindByIds  findByIds over every stored table and id list;         *)
(*   SpecCacheKey   makeCacheKey over every list of parts;                 *)
(*   SpecCache      a RequestCache called in every order;                  *)
(*   SpecModel      the create calls of a model class;                     *)
(*   SpecFind       find calls, Date-valued where arguments included;      *)
(*   SpecRegistry   createModel calls on the factory's registry;           *)
(*   SpecWriteSet   a transaction's write-set at commit, ids of any text;  *)
(*   SpecNested     withTransaction calls one inside another;              *)
(*   SpecConcurrent two withTransaction calls interleaved in one run;      *)
(*   SpecLoaderFair SpecLoader with microtasks run and batch calls settled.*)
(***************************************************************************)
EXTENDS Integers, Sequences, FiniteSets, TLC

\* ------------------------------------------------------------------ bounds
\* Number of load() calls made on the stand-alone DataLoader.
MaxLoads == 3
\* Number of loadMany() calls made on it, and of keys given to one call.
MaxLoadManys == 1
MaxManyKeys == 2
\* Number of findById calls made by the interleaved runs of SpecRuns.
MaxCalls == 3
\* Number of findById calls made in the run context next to its transaction.
MaxTxCalls == 1
\* Number of repository operations made inside one withTransaction callback.
MaxTxOps == 2
\* Number of repository calls made by the run of SpecRepo.
MaxRepoOps == 3
\* Number of calls made with no run scope in SpecOutside.
MaxOutsideCalls == 2
\* Length of the id lists given to findByIds in SpecFindByIds.
MaxIdsLen == 3
\* Number of transactions open one inside another in SpecNested.
MaxDepth == 3

\* Number of find calls made in SpecFind.
MaxFinds == 3

\* Number of parts given to makeCacheKey in SpecCacheKey.
MaxParts == 2

\* ------------------------------------------------------------ common values
\* JavaScript null and undefined.
Null == "null"
Undefined == "undefined"

Range(s) == {s[i] : i \in DOMAIN s}

SeqMin(s) == CHOOSE x \in Range(s) : \A y \in Range(s) : x <= y

NoDuplicates(s) == \A i, j \in DOMAIN s : i # j => s[i] # s[j]

\* ======================================================================
\* DataLoader (utils/DataLoader.ts)
\* ======================================================================
VARIABLES
    queue,       \* Map<K, callbacks[]> in insertion order: Seq of [key, cbs]
    scheduled,   \* the scheduled flag
    microtasks,  \* dispatch microtasks queued by queueMicrotask and not yet run
    batchCalls,  \* every batchFn call made so far, with its settlement
    loads,       \* every promise returned by load(), in call order
    loadManys    \* every loadMany() call: its keys and the promises of its loads

ldvars == <<queue, scheduled, microtasks, batchCalls, loads, loadManys>>

\* ORM contexts, request cache, repository and transactions.
VARIABLES
    runs,        \* per run: the RequestState made by createORMContext(config).run
    store,       \* per RequestCache object: its store map (cache key -> entry)
    reverseIndex,\* per RequestCache object: its reverse index (table:id -> keys)
    table,       \* the committed rows of the engine's table, by id
    calls,       \* the findById calls made in run contexts, in call order
    idBatches,   \* the findByIds calls made by the runs' DataLoaders, each with
                 \* the status the run's transaction had when it settled
    txn          \* per run: its withTransaction call

repovars == <<runs, store, reverseIndex, table, calls, idBatches, txn>>

\* The schema, run-scope find and writes, calls made outside every run, and the
\* pure functions applied to drawn inputs.
VARIABLES
    pkField,     \* the name of the schema's primary-key field
    conc,        \* two withTransaction calls of one run running interleaved:
                 \* per call its txState, what its callback threw, and the
                 \* records it invalidated
    recon,       \* a transaction over ids of any text: its write-set, the ids
                 \* written, and the invalidateKeysForId calls of its commit
    nest,        \* withTransaction calls one inside another: the contexts
                 \* entered and not yet left, innermost last
    modelCreates,\* the create calls of the model class that have settled
    modelRegistry,\* the factory's registry: model name -> the class and its schema
    finds,       \* the find calls made in run contexts, in call order
    findBatches, \* the batch-function calls made by the runs' find loaders
    runWrites,   \* the writes made in run contexts: how many, and the completed
                 \* reads that a write came after
    creates,     \* the create calls made in run contexts, in call order
    outsideCalls,\* the repository calls made with no run scope, in call order
    fnIn,        \* the input drawn for a pure function
    fnOut        \* what the pure function returned for it

auxvars == <<pkField, conc, nest, recon, modelCreates, modelRegistry, finds, findBatches, runWrites, creates, outsideCalls, fnIn, fnOut>>

vars == <<ldvars, repovars, auxvars>>

\* The loader compares keys for equality only: two keys show every case.
Keys == {"k1", "k2"}

\* Values a batch function may put at a position of its result list.
BatchValues == {Null, Undefined, "va", "vb"}

\* Errors a batch function may fail with.
BatchErrors == {"E1", "E2"}

\* Result lists a batch function may return for n keys: one per key, or one short.
ResultLists(n) == UNION {[1..m -> BatchValues] : m \in {n - 1, n}}

\* this.queue.has(key)
QueueHas(q, k) == \E i \in DOMAIN q : q[i].key = k

\* Mutant of QueuePush: every load gets a queue entry of its own (no has() test).
QueuePushNoDedup(q, k, cb) == Append(q, [key |-> k, cbs |-> <<cb>>])

\* load(), lines 27-30: create the entry when the key is new, then push the callback.
QueuePush(q, k, cb) ==
    IF QueueHas(q, k)
    THEN [i \in DOMAIN q |->
            IF q[i].key = k THEN [q[i] EXCEPT !.cbs = Append(@, cb)] ELSE q[i]]
    ELSE Append(q, [key |-> k, cbs |-> <<cb>>])

\* dispatch(), line 47: Array.from(this.queue.keys())
QueueKeys(q) == [i \in DOMAIN q |-> q[i].key]

\* dispatch(), line 48: keys.map((k) => this.queue.get(k)!)
QueueCallbacks(q) == [i \in DOMAIN q |-> q[i].cbs]

\* Mutant of QueueCleared: the queue is not cleared by a dispatch.
QueueKept(q) == q

\* dispatch(), line 49: this.queue.clear()
QueueCleared(q) == <<>>

\* Mutant of ResultAt: the value at the position as the batch function gave it.
ResultAsReturned(results, i) ==
    IF i \in DOMAIN results THEN results[i] ELSE Undefined

\* dispatch(), line 53: results[i] ?? null
ResultAt(results, i) ==
    IF i \in DOMAIN results /\ results[i] \notin {Null, Undefined}
    THEN results[i]
    ELSE Null

\* Whether callback c is among the callbacks snapshot of a batch call.
IsCaller(callbacks, c) == \E i \in DOMAIN callbacks : c \in Range(callbacks[i])

\* The position i of the loop of lines 52-57 whose callbacks[i] holds c.
PositionOf(callbacks, c) == CHOOSE i \in DOMAIN callbacks : c \in Range(callbacks[i])

\* dispatch(), lines 52-57: promise p of callback c after the batch call with
\* these callbacks has fulfilled with results.
Resolved(callbacks, results, c, p) ==
    IF IsCaller(callbacks, c)
    THEN [p EXCEPT !.state = "resolved",
                   !.value = ResultAt(results, PositionOf(callbacks, c))]
    ELSE p

\* Mutant of Rejected: only the callers of the first key are rejected.
RejectedFirstKeyOnly(callbacks, err, c, p) ==
    IF c \in Range(callbacks[1])
    THEN [p EXCEPT !.state = "rejected", !.value = err]
    ELSE p

\* dispatch(), lines 58-64: promise p of callback c after the batch call with
\* these callbacks has failed with err.
Rejected(callbacks, err, c, p) ==
    IF IsCaller(callbacks, c)
    THEN [p EXCEPT !.state = "rejected", !.value = err]
    ELSE p

\* The callbacks of batch call b at position i, as a set of load indices.
CallbacksAt(b, i) == Range(batchCalls[b].callbacks[i])

\* Mutant of SchedulesDispatch: no load queues a dispatch microtask.
SchedulesNever(flag) == FALSE

\* Mutant of SchedulesDispatch: every load queues a dispatch microtask.
SchedulesAlways(flag) == TRUE

\* load(), line 31: `if (!this.scheduled)`
SchedulesDispatch(flag) == ~flag

LdInit ==
    /\ queue = <<>>
    /\ scheduled = FALSE
    /\ microtasks = 0
    /\ batchCalls = <<>>
    /\ loads = <<>>
    /\ loadManys = <<>>

\* load(key), lines 25-36.
Load(k) ==
    /\ Len(loads) < MaxLoads
    /\ loads' = Append(loads, [key |-> k, state |-> "pending", value |-> Null])
    /\ queue' = QueuePush(queue, k, Len(loads) + 1)
    /\ IF SchedulesDispatch(scheduled)
       THEN scheduled' = TRUE /\ microtasks' = microtasks + 1
       ELSE UNCHANGED <<scheduled, microtasks>>
    /\ UNCHANGED <<batchCalls, loadManys>>
    /\ UNCHANGED <<repovars, auxvars>>

\* dispatch(), lines 45-51: up to the await of the batch function's promise.
Dispatch ==
    /\ microtasks > 0
    /\ microtasks' = microtasks - 1
    /\ scheduled' = FALSE
    /\ batchCalls' = Append(batchCalls,
           [keys |-> QueueKeys(queue), callbacks |-> QueueCallbacks(queue),
            state |-> "pending", results |-> <<>>, error |-> Null])
    /\ queue' = QueueCleared(queue)
    /\ UNCHANGED <<loads, loadManys>>
    /\ UNCHANGED <<repovars, auxvars>>

\* dispatch(), lines 51-57: the batch function's promise fulfils.
BatchFulfil(b, results) ==
    /\ batchCalls[b].state = "pending"
    /\ batchCalls' = [batchCalls EXCEPT ![b].state = "fulfilled", ![b].results = results]
    /\ loads' = [c \in DOMAIN loads |->
                   Resolved(batchCalls[b].callbacks, results, c, loads[c])]
    /\ UNCHANGED <<queue, scheduled, microtasks, loadManys>>
    /\ UNCHANGED <<repovars, auxvars>>

\* dispatch(), lines 58-64: the batch function throws or its promise rejects.
BatchReject(b, err) ==
    /\ batchCalls[b].state = "pending"
    /\ batchCalls' = [batchCalls EXCEPT ![b].state = "rejected", ![b].error = err]
    /\ loads' = [c \in DOMAIN loads |->
                   Rejected(batchCalls[b].callbacks, err, c, loads[c])]
    /\ UNCHANGED <<queue, scheduled, microtasks, loadManys>>
    /\ UNCHANGED <<repovars, auxvars>>

\* The loader after one more load(k), with the promises returned so far to the
\* loadMany call that runs.
LoadedOne(ld, k) ==
    [queue |-> QueuePush(ld.queue, k, Len(ld.loads) + 1),
     loads |-> Append(ld.loads, [key |-> k, state |-> "pending", value |-> Null]),
     scheduled |-> TRUE,
     microtasks |-> IF SchedulesDispatch(ld.scheduled)
                    THEN ld.microtasks + 1 ELSE ld.microtasks,
     promises |-> Append(ld.promises, Len(ld.loads) + 1)]

\* Mutant of LoadedEach: only the first key is loaded.
LoadedFirstOnly(ld, keys) == IF keys = <<>> THEN ld ELSE LoadedOne(ld, Head(keys))

\* loadMany, line 42: keys.map((k) => this.load(k))
RECURSIVE LoadedEach(_, _)
LoadedEach(ld, keys) ==
    IF keys = <<>> THEN ld ELSE LoadedEach(LoadedOne(ld, Head(keys)), Tail(keys))

\* Promise.all(promises), line 42: rejected with the first rejection, resolved
\* with the list of values once every promise is resolved (at once for none).
PromiseAll(promises) ==
    IF \E i \in DOMAIN promises : promises[i].state = "rejected"
    THEN [state |-> "rejected",
          value |-> promises[CHOOSE i \in DOMAIN promises :
                                /\ promises[i].state = "rejected"
                                /\ \A j \in 1..(i - 1) : promises[j].state # "rejected"].value]
    ELSE IF \A i \in DOMAIN promises : promises[i].state = "resolved"
         THEN [state |-> "resolved", value |-> [i \in DOMAIN promises |-> promises[i].value]]
         ELSE [state |-> "pending", value |-> <<>>]

\* The key lists given to loadMany, duplicates included.
KeyLists == UNION {[1..n -> Keys] : n \in 0..MaxManyKeys}

\* loadMany(keys), lines 41-43.
LoadMany(keys) ==
    /\ Len(loadManys) < MaxLoadManys
    /\ Len(loads) + Len(keys) <= MaxLoads
    /\ LET after == LoadedEach([queue |-> queue, loads |-> loads, scheduled |-> scheduled,
                                microtasks |-> microtasks, promises |-> <<>>], keys)
       IN /\ queue' = after.queue
          /\ loads' = after.loads
          /\ scheduled' = after.scheduled
          /\ microtasks' = after.microtasks
          /\ loadManys' = Append(loadManys, [keys |-> keys, promises |-> after.promises])
    /\ UNCHANGED batchCalls
    /\ UNCHANGED <<repovars, auxvars>>

\* The promise loadMany call m returned.
LoadManyPromise(m) ==
    PromiseAll([i \in DOMAIN loadManys[m].promises |-> loads[loadManys[m].promises[i]]])

LdNext ==
    \/ \E k \in Keys : Load(k)
    \/ \E keys \in KeyLists : LoadMany(keys)
    \/ Dispatch
    \/ \E b \in DOMAIN batchCalls :
          \E results \in ResultLists(Len(batchCalls[b].keys)) : BatchFulfil(b, results)
    \/ \E b \in DOMAIN batchCalls : \E err \in BatchErrors : BatchReject(b, err)


\* ======================================================================
\* RequestCache (cache/RequestCache.ts), ORM context (context.ts),
\* BaseModel (model/BaseModel.ts) and DataRepository (model/repository.ts)
\* ======================================================================
\* The run invocations, and the ORM contexts they can be runs of:
\* createORMContext({db}) and createORMContext({db, cache}).
Runs == {"r1", "r2"}
Orms == {"plain", "withCache"}

\* config.cache of an ORM context.
ConfigCache(o) == IF o = "withCache" THEN "supplied" ELSE Undefined

\* RequestCache objects: the one supplied in a config, and the one each run makes.
CacheObjects == Runs \cup {"supplied"}

\* The repository's table and id field, and the rows the engine can hold.
TableName == "users"
IdField == "id"
Ids == {1, 2}
Names == {"a", "b"}
RowTable == {<<1, "a", "row1a">>, <<1, "b", "row1b">>, <<2, "a", "row2a">>, <<2, "b", "row2b">>}
Rows == {t[3] : t \in RowTable}
MkRow(id, name) == (CHOOSE t \in RowTable : t[1] = id /\ t[2] = name)[3]
\* row[idField] and row.name
RowId(row) == (CHOOSE t \in RowTable : t[3] = row)[1]
RowName(row) == (CHOOSE t \in RowTable : t[3] = row)[2]
\* `${id}` of an id (ids here hold no ':').
IdText(id) == IF id = 1 THEN "1" ELSE "2"

\* makeCacheKey(tableName, op, arg): the key's parts, kept apart.
MakeCacheKey(tableName, op, arg) == <<tableName, op, arg>>
FindByIdKey(id) == MakeCacheKey(TableName, "findById", id)

\* `${table}:${id}`, the key of the reverse index and of writtenRecords.
IndexKey(tableName, idText) == <<tableName, idText>>

\* ---- RequestCache -----------------------------------------------------
\* has(key), line 94
CacheHas(st, key) == key \in DOMAIN st

\* Mutant of CacheSet: nothing is stored.
CacheSetNothing(st, key, entry) == st

\* set(key, value), line 86; an entry also remembers the run that set it.
CacheSet(st, key, entry) == [k \in DOMAIN st \cup {key} |-> IF k = key THEN entry ELSE st[k]]

\* registerKeyForId(table, id, cacheKey), lines 120-126
RegisterKeyForId(ri, tableName, idText, key) ==
    LET indexKey == IndexKey(tableName, idText)
    IN [k \in DOMAIN ri \cup {indexKey} |->
          IF k = indexKey
          THEN (IF indexKey \in DOMAIN ri THEN ri[indexKey] ELSE {}) \cup {key}
          ELSE ri[k]]

\* delete(key), line 102, and clear(), line 109: the store afterwards.
CacheDelete(st, key) == [k \in DOMAIN st \ {key} |-> st[k]]
CacheClear(st) == <<>>

\* Mutant of InvalidatedStore: the whole store is cleared.
StoreCleared(st, ri, tableName, idText) == <<>>

\* Mutant of InvalidatedIndex: the bucket is kept.
BucketKept(ri, tableName, idText) == ri

\* Mutant of InvalidatedStore: every cached list query is removed as well.
InvalidatedWithFinds(st, ri, tableName, idText) ==
    LET indexKey == IndexKey(tableName, idText)
        registered == IF indexKey \in DOMAIN ri THEN ri[indexKey] ELSE {}
    IN [k \in {key \in DOMAIN st \ registered : key[2] # "find"} |-> st[k]]

\* invalidateKeysForId(table, id), lines 133-142: the store afterwards.
InvalidatedStore(st, ri, tableName, idText) ==
    LET indexKey == IndexKey(tableName, idText)
    IN IF indexKey \in DOMAIN ri
       THEN [k \in DOMAIN st \ ri[indexKey] |-> st[k]]
       ELSE st

\* invalidateKeysForId(table, id), lines 133-142: the reverse index afterwards.
InvalidatedIndex(ri, tableName, idText) ==
    LET indexKey == IndexKey(tableName, idText)
    IN [k \in DOMAIN ri \ {indexKey} |-> ri[k]]

\* ---- engine -----------------------------------------------------------
\* The rows a handle sees: the committed table, under the transaction's own
\* writes when the handle is a transaction.
View(overlay) == [id \in Ids |-> IF overlay[id] # "unset" THEN overlay[id] ELSE table[id]]
NoOverlay == [id \in Ids |-> "unset"]

\* selectFrom(table).selectAll().where(idField, 'in', ids): the rows found.
SelectIn(view, ids) == {view[id] : id \in Range(ids) \cap {i \in Ids : view[i] # Null}}

\* Mutant of MapToInputOrder: the rows in the engine's order (by id), then nulls.
MapInEngineOrder(ids, found) ==
    [i \in DOMAIN ids |->
        IF i <= Cardinality(found)
        THEN CHOOSE row \in found :
                Cardinality({other \in found : RowId(other) < RowId(row)}) = i - 1
        ELSE Null]

\* findByIds, lines 134-139 and 148-152: the rows found, mapped to input order.
MapToInputOrder(ids, found) ==
    [i \in DOMAIN ids |->
        IF \E row \in found : RowId(row) = ids[i]
        THEN CHOOSE row \in found : RowId(row) = ids[i]
        ELSE Null]

\* ---- contexts ----------------------------------------------------------
\* An optional field of a RequestState: left out, or present with a value.
None == <<>>
Some(x) == <<x>>

NotStarted == [started |-> FALSE, orm |-> "plain", cache |-> "none", dataLoaders |-> <<>>,
               handles |-> {}]
NoTxn == [status |-> "none", db |-> "none", cache |-> "none",
          writtenRecords |-> {}, overlay |-> NoOverlay,
          dataLoaders |-> <<>>, error |-> Undefined, ops |-> 0,
          invalidated |-> {}, engine |-> "none",
          outcome |-> "pending", settledWith |-> Undefined,
          threw |-> FALSE, handles |-> {}, found |-> Undefined,
          lastRead |-> [op |-> "none", arg |-> 0, queries |-> 0, handle |-> "none",
                        fromCache |-> FALSE]]

\* The RequestState that is ambient in a scope of run r: the run's own state
\* (createORMContext, lines 256-260) or the txState of its transaction
\* (withTransaction, lines 175-180).
Ambient(r, scope) ==
    IF scope = "tx"
    THEN [db |-> txn[r].db, cache |-> txn[r].cache,
          writtenRecords |-> Some(txn[r].writtenRecords),
          dataLoaders |-> txn[r].dataLoaders]
    ELSE [db |-> "root", cache |-> runs[r].cache,
          writtenRecords |-> None, dataLoaders |-> runs[r].dataLoaders]

\* Whether a scope of run r is one that code can be running in.
ScopeLive(r, scope) ==
    /\ runs[r].started
    /\ scope = "tx" => txn[r].status = "open"

\* Mutant of InTransaction: an empty write-set counts as no transaction.
InTransactionNonEmpty(state) ==
    state.writtenRecords # None /\ state.writtenRecords[1] # {}

\* BaseModel.inTransaction(), line 222: !!getCurrentContext()?.writtenRecords
InTransaction(state) == state.writtenRecords # None

\* Mutant of BypassesLoader: findById goes through the cache and the loader in
\* every context.
BypassesNever(state) == FALSE

\* findById, line 86: `if (BaseModel.inTransaction())`, whether the cache and
\* the DataLoader are bypassed.
BypassesLoader(state) == InTransaction(state)

\* Mutant of InvalidatesNow: update and delete always invalidate at once.
InvalidatesAlways(state) == TRUE

\* update and delete, lines 198 and 214: `!BaseModel.inTransaction() && cache`,
\* whether the cache is invalidated for the id before the query.
InvalidatesNow(state) == ~InTransaction(state)

\* Mutant of GetDb: every query goes to the root handle.
GetDbRoot(state) == "root"

\* DataRepository.getDb() (repository.ts lines 20-25) over BaseModel.getCurrentDb()
\* (line 206): the handle of the ambient state, which receives the query. A
\* run and a transaction remember the handles their queries went to (handles).
GetDb(state) == state.db

\* `${this.tableName}:${idField}`, the registry key of findById's loader.
LoaderKey == <<TableName, IdField>>
NewLoader == [queue |-> <<>>, scheduled |-> FALSE, microtasks |-> 0]

\* BaseModel.getDataLoader, lines 240-248: the registry afterwards.
GetDataLoader(registry, key) ==
    IF key \in DOMAIN registry
    THEN registry
    ELSE [k \in DOMAIN registry \cup {key} |-> IF k = key THEN NewLoader ELSE registry[k]]

\* Nothing read, written or called yet, for a schema whose primary key is pk.
AuxInit(pk) ==
    /\ pkField = pk
    /\ conc = [t \in {"t1", "t2"} |->
                  [status |-> "none", state |-> None, threw |-> FALSE,
                   error |-> Undefined, invalidated |-> {}, outcome |-> "pending"]]
    /\ modelCreates = {}
    /\ nest = [stack |-> <<[state |-> [db |-> "root", cache |-> "r1",
                                       writtenRecords |-> None, dataLoaders |-> <<>>],
                            openedOn |-> "none"]>>,
               last |-> "none", left |-> {}]
    /\ recon = [status |-> "none", writtenRecords |-> <<>>, written |-> {},
                invalidated |-> <<>>]
    /\ modelRegistry = <<>>
    /\ finds = <<>>
    /\ findBatches = <<>>
    /\ runWrites = [count |-> 0, calls |-> {}, finds |-> {}]
    /\ creates = <<>>
    /\ outsideCalls = <<>>
    /\ fnIn = <<>>
    /\ fnOut = <<>>

RepoInit ==
    /\ runs = [r \in Runs |-> NotStarted]
    /\ store = [c \in CacheObjects |-> <<>>]
    /\ reverseIndex = [c \in CacheObjects |-> <<>>]
    /\ table = [id \in Ids |-> IF id = 1 THEN MkRow(1, "a") ELSE Null]
    /\ calls = <<>>
    /\ idBatches = <<>>
    /\ txn = [r \in Runs |-> NoTxn]

\* createORMContext(config).run(fn), lines 255-262.
Run(r, o) ==
    /\ ~runs[r].started
    /\ runs' = [runs EXCEPT ![r] =
          [started |-> TRUE, orm |-> o,
           cache |-> IF ConfigCache(o) # Undefined THEN ConfigCache(o) ELSE r,
           dataLoaders |-> <<>>, handles |-> {}]]
    /\ UNCHANGED <<store, reverseIndex, table, calls, idBatches, txn, ldvars, auxvars>>

\* findById(id), lines 88-94: `.where(idField, '=', id).limit(1).execute()` and
\* `result[0] ?? null`.
FirstOrNull(view, id) ==
    LET result == SelectIn(view, <<id>>)
    IN IF result = {} THEN Null ELSE CHOOSE row \in result : TRUE

\* findById(id), lines 86-95: inside a transaction, query the handle directly.
FindByIdDirect(r, state, id) ==
    /\ txn[r].ops < MaxTxOps
    /\ txn' = [txn EXCEPT ![r].ops = @ + 1,
                          ![r].found = FirstOrNull(View(txn[r].overlay), id),
                          ![r].handles = @ \cup {GetDb(state)},
                          ![r].lastRead = [op |-> "findById", arg |-> id, queries |-> 1,
                                           handle |-> GetDb(state), fromCache |-> FALSE]]
    /\ UNCHANGED <<runs, store, reverseIndex, table, calls, idBatches>>

\* The promise of a findById that returned the cached entry (line 100), and of
\* one that awaits its loader (line 108).
HitCall(r, id, entry) ==
    [run |-> r, id |-> id, state |-> "resolved", hit |-> TRUE,
     value |-> entry.value, writer |-> entry.writer]
PendingCall(r, id) ==
    [run |-> r, id |-> id, state |-> "pending", hit |-> FALSE, value |-> Null, writer |-> r]

\* getDataLoader(loaderKey, create) followed by loader.load(k) with callback cb:
\* the registry afterwards (BaseModel.getDataLoader, DataLoader.load).
LoadedRegistry(registry, loaderKey, k, cb) ==
    LET made == GetDataLoader(registry, loaderKey)
        loader == made[loaderKey]
    IN [made EXCEPT ![loaderKey] =
           [queue |-> QueuePush(loader.queue, k, cb),
            scheduled |-> TRUE,
            microtasks |-> IF loader.scheduled THEN loader.microtasks
                           ELSE loader.microtasks + 1]]

\* findById(id), lines 97-101: the cache holds the key.
FindByIdHit(r, scope, state, id) ==
    LET entry == store[state.cache][FindByIdKey(id)]
    IN /\ IF scope = "tx"
          THEN /\ txn[r].ops < MaxTxOps
               /\ txn' = [txn EXCEPT ![r].ops = @ + 1,
                             ![r].found = entry.value,
                             ![r].lastRead = [op |-> "findById", arg |-> id, queries |-> 0,
                                              handle |-> "none", fromCache |-> TRUE]]
               /\ UNCHANGED calls
          ELSE /\ calls' = Append(calls, HitCall(r, id, entry))
               /\ UNCHANGED txn
       /\ UNCHANGED <<runs, store, reverseIndex, table, idBatches>>

\* findById(id), lines 102-108: get or create the loader and load(id).
FindByIdLoad(r, scope, state, id) ==
    LET registry2 == LoadedRegistry(state.dataLoaders, LoaderKey, id, Len(calls) + 1)
    IN /\ calls' = Append(calls, PendingCall(r, id))
       /\ IF scope = "tx"
          THEN /\ txn' = [txn EXCEPT ![r].dataLoaders = registry2]
               /\ UNCHANGED runs
          ELSE /\ runs' = [runs EXCEPT ![r].dataLoaders = registry2]
               /\ UNCHANGED txn
       /\ UNCHANGED <<store, reverseIndex, table, idBatches>>

\* DataRepository.findById(id, idField), lines 84-116, up to its first await.
FindById(r, scope, id) ==
    /\ ScopeLive(r, scope)
    /\ LET state == Ambient(r, scope)
       IN IF BypassesLoader(state)
          THEN FindByIdDirect(r, state, id)
          ELSE IF CacheHas(store[state.cache], FindByIdKey(id))
               THEN FindByIdHit(r, scope, state, id)
               ELSE FindByIdLoad(r, scope, state, id)
    /\ UNCHANGED <<ldvars, auxvars>>

\* Mutant of FindByIdsResult: the rows found in input order, none for a
\* missing id.
FindByIdsFoundOnly(view, ids) ==
    SelectSeq(IF ids = <<>> THEN <<>> ELSE MapToInputOrder(ids, SelectIn(view, ids)),
              LAMBDA row : row # Null)

\* findByIds(ids, idField), lines 124-153, on the handle whose rows are view:
\* no query for an empty list, else one 'in' query mapped to input order.
FindByIdsQueries(ids) == IF ids = <<>> THEN 0 ELSE 1
FindByIdsResult(view, ids) ==
    IF ids = <<>> THEN <<>> ELSE MapToInputOrder(ids, SelectIn(view, ids))

\* The loader's dispatch() of run r, lines 45-51 of DataLoader.ts, whose batch
\* function is findByIds (repository.ts, line 106) in the run's context: the
\* 'in' query is issued on the root handle and reads the committed table.
DispatchIds(r) ==
    /\ runs[r].started
    /\ LoaderKey \in DOMAIN runs[r].dataLoaders
    /\ LET loader == runs[r].dataLoaders[LoaderKey]
       IN /\ loader.microtasks > 0
          /\ runs' = [runs EXCEPT ![r].dataLoaders[LoaderKey] =
                [queue |-> QueueCleared(loader.queue), scheduled |-> FALSE,
                 microtasks |-> loader.microtasks - 1],
                                  ![r].handles = @ \cup {GetDb(Ambient(r, "run"))}]
          /\ idBatches' = Append(idBatches,
                [run |-> r, keys |-> QueueKeys(loader.queue),
                 callbacks |-> QueueCallbacks(loader.queue), state |-> "pending",
                 queries |-> FindByIdsQueries(QueueKeys(loader.queue)),
                 results |-> FindByIdsResult(table, QueueKeys(loader.queue)),
                 error |-> Null, settledIn |-> "none"])
    /\ UNCHANGED <<store, reverseIndex, table, calls, txn, ldvars, auxvars>>

\* findById, lines 109-114, run by every caller of a fulfilled batch: set the
\* cache entry and register it under the row's id. Callers of position i on.
RECURSIVE CachedFrom(_, _, _, _, _)
CachedFrom(cache, keys, results, r, i) ==
    IF i > Len(keys)
    THEN cache
    ELSE LET value == ResultAt(results, i)
             key == FindByIdKey(keys[i])
             st == CacheSet(cache.store, key, [value |-> value, writer |-> r])
             ri == IF value # Null
                   THEN RegisterKeyForId(cache.reverseIndex, TableName,
                                         IdText(RowId(value)), key)
                   ELSE cache.reverseIndex
         IN CachedFrom([store |-> st, reverseIndex |-> ri], keys, results, r, i + 1)

\* The rest of dispatch(), lines 51-57, and of the callers' findById, lines
\* 108-115, once the engine has answered the batch's query.
BatchSettle(b) ==
    /\ idBatches[b].state = "pending"
    /\ LET batch == idBatches[b]
           c == runs[batch.run].cache
           after == CachedFrom([store |-> store[c], reverseIndex |-> reverseIndex[c]],
                               batch.keys, batch.results, batch.run, 1)
       IN /\ idBatches' = [idBatches EXCEPT ![b].state = "fulfilled",
                                             ![b].settledIn = txn[batch.run].status]
          /\ calls' = [k \in DOMAIN calls |->
                          Resolved(batch.callbacks, batch.results, k, calls[k])]
          /\ store' = [store EXCEPT ![c] = after.store]
          /\ reverseIndex' = [reverseIndex EXCEPT ![c] = after.reverseIndex]
    /\ UNCHANGED <<runs, table, txn, ldvars, auxvars>>

\* Mutant of AfterFailedLoad: the failure is cached as a not-found result.
FailureCachedAsNull(cache, key, r) ==
    [cache EXCEPT !.store = CacheSet(@, key, [value |-> Null, writer |-> r])]

\* find, line 57, and findById, line 108: `await loader.load(...)` throws, so the
\* lines after it (cache.set and registerKeyForId) do not run for cache key key.
AfterFailedLoad(cache, key, r) == cache

\* dispatch(), lines 58-64, when the engine fails the batch's query: the callers'
\* findById rejects at line 108 and sets nothing.
BatchFail(b, err) ==
    /\ idBatches[b].state = "pending"
    /\ idBatches' = [idBatches EXCEPT ![b].state = "rejected", ![b].error = err,
                                       ![b].settledIn = txn[idBatches[b].run].status]
    /\ calls' = [k \in DOMAIN calls |->
                    Rejected(idBatches[b].callbacks, err, k, calls[k])]
    /\ LET c == runs[idBatches[b].run].cache
           after == AfterFailedLoad([store |-> store[c], reverseIndex |-> reverseIndex[c]],
                                    FindByIdKey(idBatches[b].keys[1]), idBatches[b].run)
       IN /\ store' = [store EXCEPT ![c] = after.store]
          /\ reverseIndex' = [reverseIndex EXCEPT ![c] = after.reverseIndex]
    /\ UNCHANGED <<runs, table, txn, ldvars, auxvars>>

\* ---- reads inside a transaction -----------------------------------------
IdLists == {<<>>, <<1>>, <<2>>, <<1, 2>>, <<2, 1>>}

\* DataRepository.findByIds(ids), lines 124-140, called in a transaction scope.
FindByIds(r, scope, ids) ==
    /\ scope = "tx"
    /\ ScopeLive(r, scope)
    /\ txn[r].ops < MaxTxOps
    /\ LET state == Ambient(r, scope)
       IN txn' = [txn EXCEPT ![r].ops = @ + 1,
                     ![r].handles = IF ids = <<>> THEN @ ELSE @ \cup {GetDb(state)},
                     ![r].lastRead = [op |-> "findByIds", arg |-> Len(ids),
                                      queries |-> FindByIdsQueries(ids),
                                      handle |-> IF ids = <<>> THEN "none" ELSE GetDb(state),
                                      fromCache |-> FALSE]]
    /\ UNCHANGED <<runs, store, reverseIndex, table, calls, idBatches, ldvars, auxvars>>

\* DataRepository.find(where), lines 27-38, called in a transaction scope.
Find(r, scope) ==
    /\ scope = "tx"
    /\ ScopeLive(r, scope)
    /\ txn[r].ops < MaxTxOps
    /\ LET state == Ambient(r, scope)
       IN /\ InTransaction(state)
          /\ txn' = [txn EXCEPT ![r].ops = @ + 1,
                     ![r].handles = @ \cup {GetDb(state)},
                     ![r].lastRead = [op |-> "find", arg |-> 0, queries |-> 1,
                                      handle |-> GetDb(state), fromCache |-> FALSE]]
    /\ UNCHANGED <<runs, store, reverseIndex, table, calls, idBatches, ldvars, auxvars>>

\* ---- makeCacheKey as a function of its parts ---------------------------
\* JavaScript values, each with its type: null, undefined, a string, a number,
\* a boolean, a bigint, an array of values, an object as its entries
\* <<key, value>> in insertion order.
JsNull == <<"null">>
JsUndefined == <<"undefined">>
Str(s) == <<"string", s>>
Num(n) == <<"number", n>>
Bool(b) == <<"boolean", b>>
BigInt(n) == <<"bigint", n>>
Arr(elems) == <<"array", elems>>
Obj(entries) == <<"object", entries>>
\* A Date object, by its time value: an object with no own enumerable key.
Date(t) == <<"date", t>>

\* The strings given: the empty string, letters, the text of a number and of
\* null, and strings that hold ':' and the text of a type tag.
Strings == {"", "a", "b", "1", "null", ":s:", "a:s:b", "a:null"}
Numbers == {1, 2}

\* Object keys in the order of Array.prototype.sort (UTF-16 code units).
ObjKeys == <<"createdAt", "extra", "id", "modifiers", "name", "type", "value", "x", "y">>
KeyOrders == {<<>>, <<"x">>, <<"y">>, <<"x", "y">>, <<"y", "x">>}
InnerObjects == {Obj(<<<<"x", Num(1)>>, <<"y", Num(2)>>>>),
                 Obj(<<<<"y", Num(2)>>, <<"x", Num(1)>>>>)}
EntryValues == {Num(1)} \cup InnerObjects
Objects == UNION {{Obj([i \in DOMAIN ks |-> <<ks[i], vs[i]>>]) :
                      vs \in [DOMAIN ks -> EntryValues]} : ks \in KeyOrders}
Arrays == UNION {{Arr(elems) : elems \in [1..n -> {Num(m) : m \in Numbers}]} : n \in 0..2}
Values == {JsNull, JsUndefined, Bool(TRUE), BigInt(1)}
             \cup {Str(t) : t \in Strings} \cup {Num(n) : n \in Numbers}
             \cup Arrays \cup Objects
PartLists == UNION {[1..n -> Values] : n \in 0..MaxParts}

\* Array.prototype.join(sep) of strings
RECURSIVE Join(_, _)
Join(texts, sep) ==
    IF texts = <<>> THEN ""
    ELSE IF Len(texts) = 1 THEN texts[1]
    ELSE texts[1] \o sep \o Join(Tail(texts), sep)

\* JSON.stringify of a string (the strings here hold no character to escape),
\* `${n}` of a number or bigint, `${b}` of a boolean.
JsonString(t) == "\"" \o t \o "\""
NumberText(n) == ToString(n)
BoolText(b) == IF b THEN "true" ELSE "false"

\* Mutant of SortedKeys: the keys in insertion order.
KeysAsInserted(entries) == [i \in DOMAIN entries |-> entries[i][1]]

\* Object.keys(value).sort(), line 17
SortedKeys(entries) ==
    SelectSeq(ObjKeys, LAMBDA key : \E i \in DOMAIN entries : entries[i][1] = key)

\* value[k]
EntryOf(entries, key) == entries[CHOOSE i \in DOMAIN entries : entries[i][1] = key][2]

\* stableStringifyWithBigInt(value), lines 7-27
RECURSIVE StableStringifyWithBigInt(_)
StableStringifyWithBigInt(value) ==
    CASE value[1] = "null" -> "null"
      [] value[1] = "undefined" -> "undefined"
      [] value[1] = "bigint" -> "bigint:" \o NumberText(value[2])
      [] value[1] = "string" -> JsonString(value[2])
      [] value[1] = "number" -> NumberText(value[2])
      [] value[1] = "boolean" -> BoolText(value[2])
      [] value[1] = "array" ->
            "[" \o Join([i \in DOMAIN value[2] |-> StableStringifyWithBigInt(value[2][i])],
                        ",") \o "]"
      [] value[1] = "object" ->
            LET keys == SortedKeys(value[2])
            IN "{" \o Join([i \in DOMAIN keys |->
                               JsonString(keys[i]) \o ":" \o
                               StableStringifyWithBigInt(EntryOf(value[2], keys[i]))],
                           ",") \o "}"
      [] value[1] = "date" -> "{" \o Join(<<>>, ",") \o "}"

\* The text makeCacheKey gives one part, lines 31-52
PartText(part) ==
    CASE part[1] = "null" -> "null"
      [] part[1] = "undefined" -> "undefined"
      [] part[1] = "bigint" -> "bigint:" \o NumberText(part[2])
      [] part[1] = "array" -> "a:" \o StableStringifyWithBigInt(part)
      [] part[1] = "string" -> "s:" \o part[2]
      [] part[1] = "number" -> "n:" \o NumberText(part[2])
      [] part[1] = "boolean" -> "b:" \o BoolText(part[2])
      [] part[1] \in {"object", "date"} -> "o:" \o StableStringifyWithBigInt(part)

\* makeCacheKey(...parts), lines 29-54: the key string.
MakeCacheKeyText(parts) == Join([i \in DOMAIN parts |-> PartText(parts[i])], ":")

\* ---- find outside a transaction ---------------------------------------
\* The repository calls made in run scope so far: findById, find and writes (a
\* create's own findById is part of the create).
RepoOps == Len(calls) - Len(creates) + Len(finds) + runWrites.count

\* The where arguments: none ({}), and {name: 'a'}.
Wheres == {"{}", "{name:a}"}

\* Where arguments on a timestamp field, with Date values of two times.
DateWheres == {"{createdAt:d1}", "{createdAt:d2}"}

\* The where object each of them names.
WhereValue(w) ==
    CASE w = "{}" -> Obj(<<>>)
      [] w = "{name:a}" -> Obj(<< <<"name", Str("a")>> >>)
      [] w = "{createdAt:d1}" -> Obj(<< <<"createdAt", Date(1)>> >>)
      [] w = "{createdAt:d2}" -> Obj(<< <<"createdAt", Date(2)>> >>)

\* The createdAt of a row: the row of id n was created at time n.
CreatedAt(row) == RowId(row)

\* The ids in the order the engine returns rows in.
IdOrder == <<1, 2>>

\* Names of primary-key fields of schemas.
PkFields == {"id", "uuid"}

\* query.where(key, '=', value) for every entry of where, lines 76-80.
Matches(row, w) ==
    CASE w = "{}" -> TRUE
      [] w = "{name:a}" -> RowName(row) = "a"
      [] w = "{createdAt:d1}" -> CreatedAt(row) = 1
      [] w = "{createdAt:d2}" -> CreatedAt(row) = 2

\* _findBatch(where), lines 73-82: the rows the engine returns.
FindBatch(view, w) ==
    LET ids == SelectSeq(IdOrder, LAMBDA id : view[id] # Null /\ Matches(view[id], w))
    IN [i \in DOMAIN ids |-> view[ids[i]]]

\* (row as any)[field] as text, for the field that holds the row's id:
\* undefined when the schema names its primary key otherwise.
RowField(row, field) == IF field = pkField THEN IdText(RowId(row)) ELSE Undefined

\* makeCacheKey(this.tableName, 'find', where || {}), line 41
FindKey(w) == MakeCacheKey(TableName, "find", PartText(WhereValue(w)))

\* `${this.tableName}:find:${makeCacheKey(where || {})}`, line 46
FindLoaderKey(w) == <<TableName, "find", MakeCacheKeyText(<<WhereValue(w)>>)>>

\* find, lines 62-67: the reverse index after the rows from position i on have
\* been registered under row['id'].
RECURSIVE RegisteredRows(_, _, _, _)
RegisteredRows(ri, rows, key, i) ==
    IF i > Len(rows)
    THEN ri
    ELSE RegisteredRows(
            IF RowField(rows[i], "id") # Undefined
            THEN RegisterKeyForId(ri, TableName, RowField(rows[i], "id"), key)
            ELSE ri,
            rows, key, i + 1)

\* find, lines 58-68: cache.set(cacheKey, safeResult) and the registrations.
CachedFind(cache, key, rows, r) ==
    [store |-> CacheSet(cache.store, key, [value |-> rows, writer |-> r]),
     reverseIndex |-> RegisteredRows(cache.reverseIndex, rows, key, 1)]

\* DataRepository.find(where), lines 39-57, outside a transaction, up to its
\* first await: return the cached rows, or load through the loader of this
\* where (each call passes a where object of its own as the loader's key).
FindRun(r, w) ==
    /\ ScopeLive(r, "run")
    /\ LET state == Ambient(r, "run")
           k == Len(finds) + 1
       IN /\ ~InTransaction(state)
          /\ IF CacheHas(store[state.cache], FindKey(w))
             THEN /\ finds' = Append(finds,
                        [run |-> r, where |-> w, state |-> "resolved", hit |-> TRUE,
                         value |-> store[state.cache][FindKey(w)].value, error |-> Null])
                  /\ UNCHANGED runs
             ELSE /\ finds' = Append(finds,
                        [run |-> r, where |-> w, state |-> "pending", hit |-> FALSE,
                         value |-> <<>>, error |-> Null])
                  /\ runs' = [runs EXCEPT ![r].dataLoaders =
                        LoadedRegistry(@, FindLoaderKey(w), k, k)]
    /\ UNCHANGED <<store, reverseIndex, table, calls, idBatches, txn, ldvars>>
    /\ UNCHANGED <<pkField, conc, nest, recon, modelCreates, modelRegistry, findBatches, runWrites, creates, outsideCalls, fnIn, fnOut>>

\* wheres[0], line 52: the where object of the first find call in the queue
\* (the queue's keys are the calls' own where objects).
FirstWhere(q) == finds[QueueKeys(q)[1]].where

\* The dispatch() of the find loader of where w in run r (DataLoader.ts lines
\* 45-51): its batch function (repository.ts lines 50-55) runs _findBatch once,
\* for wheres[0], on the root handle, and answers every key with that result.
DispatchFind(r, w) ==
    /\ runs[r].started
    /\ FindLoaderKey(w) \in DOMAIN runs[r].dataLoaders
    /\ LET loader == runs[r].dataLoaders[FindLoaderKey(w)]
       IN /\ loader.microtasks > 0
          /\ runs' = [runs EXCEPT ![r].dataLoaders[FindLoaderKey(w)] =
                [queue |-> QueueCleared(loader.queue), scheduled |-> FALSE,
                 microtasks |-> loader.microtasks - 1],
                                  ![r].handles = @ \cup {GetDb(Ambient(r, "run"))}]
          /\ findBatches' = Append(findBatches,
                [run |-> r, where |-> FirstWhere(loader.queue),
                 callbacks |-> QueueCallbacks(loader.queue),
                 state |-> "pending", queries |-> 1,
                 rows |-> FindBatch(table, FirstWhere(loader.queue)),
                 error |-> Null])
    /\ UNCHANGED <<store, reverseIndex, table, calls, idBatches, txn, ldvars>>
    /\ UNCHANGED <<pkField, conc, nest, recon, modelCreates, modelRegistry, finds, runWrites, creates, outsideCalls, fnIn, fnOut>>

\* The rest of dispatch() and of the callers' find, lines 57-69, once the engine
\* has answered: every caller sets the cache entry and registers its rows.
FindSettle(b) ==
    /\ findBatches[b].state = "pending"
    /\ LET batch == findBatches[b]
           c == runs[batch.run].cache
           after == CachedFind([store |-> store[c], reverseIndex |-> reverseIndex[c]],
                               FindKey(batch.where), batch.rows, batch.run)
       IN /\ findBatches' = [findBatches EXCEPT ![b].state = "fulfilled"]
          /\ finds' = [k \in DOMAIN finds |->
                          IF IsCaller(batch.callbacks, k)
                          THEN [finds[k] EXCEPT !.state = "resolved", !.value = batch.rows]
                          ELSE finds[k]]
          /\ store' = [store EXCEPT ![c] = after.store]
          /\ reverseIndex' = [reverseIndex EXCEPT ![c] = after.reverseIndex]
    /\ UNCHANGED <<runs, table, calls, idBatches, txn, ldvars>>
    /\ UNCHANGED <<pkField, conc, nest, recon, modelCreates, modelRegistry, runWrites, creates, outsideCalls, fnIn, fnOut>>

\* dispatch(), lines 58-64, when the engine fails _findBatch's query: the
\* callers' find rejects at line 57 and sets nothing.
FindFail(b, err) ==
    /\ findBatches[b].state = "pending"
    /\ findBatches' = [findBatches EXCEPT ![b].state = "rejected", ![b].error = err]
    /\ finds' = [k \in DOMAIN finds |->
                    IF IsCaller(findBatches[b].callbacks, k)
                    THEN [finds[k] EXCEPT !.state = "rejected", !.error = err]
                    ELSE finds[k]]
    /\ LET c == runs[findBatches[b].run].cache
           after == AfterFailedLoad([store |-> store[c], reverseIndex |-> reverseIndex[c]],
                                    FindKey(findBatches[b].where), findBatches[b].run)
       IN /\ store' = [store EXCEPT ![c] = after.store]
          /\ reverseIndex' = [reverseIndex EXCEPT ![c] = after.reverseIndex]
    /\ UNCHANGED <<runs, table, calls, idBatches, txn, ldvars>>
    /\ UNCHANGED <<pkField, conc, nest, recon, modelCreates, modelRegistry, runWrites, creates, outsideCalls, fnIn, fnOut>>

\* ---- writes ------------------------------------------------------------
\* BaseModel.recordWrite(table, id), lines 229-234
RecordWrite(written, tableName, idText) ==
    IF written # None THEN Some(written[1] \cup {IndexKey(tableName, idText)}) ELSE written

\* DataRepository.update(id, data), lines 195-206. In a transaction scope the
\* write is recorded and the row, when the handle sees one, is rewritten.
\* Outside a transaction nothing is recorded, the cache is invalidated for the
\* id and the row is rewritten in the table.
Update(r, scope, id, name) ==
    IF scope = "tx"
    THEN
       /\ ScopeLive(r, scope)
       /\ txn[r].ops < MaxTxOps
       /\ LET state == Ambient(r, scope)
              view == View(txn[r].overlay)
          IN /\ InTransaction(state)
             /\ txn' = [txn EXCEPT
                   ![r].ops = @ + 1,
                   ![r].handles = @ \cup {GetDb(state)},
                   ![r].writtenRecords = RecordWrite(state.writtenRecords, TableName, IdText(id))[1],
                   ![r].overlay[id] = IF view[id] # Null THEN MkRow(id, name) ELSE @]
             /\ store' = [store EXCEPT ![state.cache] =
                   IF InvalidatesNow(state)
                   THEN InvalidatedStore(@, reverseIndex[state.cache], TableName, IdText(id))
                   ELSE @]
             /\ reverseIndex' = [reverseIndex EXCEPT ![state.cache] =
                   IF InvalidatesNow(state)
                   THEN InvalidatedIndex(@, TableName, IdText(id))
                   ELSE @]
       /\ UNCHANGED <<runs, table, calls, idBatches, ldvars, auxvars>>
    ELSE
       /\ ScopeLive(r, scope)
       /\ RepoOps < MaxRepoOps
       /\ LET state == Ambient(r, scope)
          IN /\ ~InTransaction(state)
             /\ RecordWrite(state.writtenRecords, TableName, IdText(id)) = None
             /\ store' = [store EXCEPT ![state.cache] =
                   InvalidatedStore(@, reverseIndex[state.cache], TableName, IdText(id))]
             /\ reverseIndex' = [reverseIndex EXCEPT ![state.cache] =
                   InvalidatedIndex(@, TableName, IdText(id))]
             /\ table' = [table EXCEPT ![id] = IF @ # Null THEN MkRow(id, name) ELSE @]
             /\ runWrites' = [count |-> runWrites.count + 1,
                               calls |-> runWrites.calls \cup
                                  {n \in DOMAIN calls :
                                      calls[n].id = id /\ calls[n].state = "resolved"},
                               finds |-> runWrites.finds \cup
                                  {n \in DOMAIN finds : finds[n].state = "resolved"}]
       /\ runs' = [runs EXCEPT ![r].handles = @ \cup {GetDb(Ambient(r, scope))}]
       /\ UNCHANGED <<calls, idBatches, txn, ldvars>>
       /\ UNCHANGED <<pkField, conc, nest, recon, modelCreates, modelRegistry, finds, findBatches, creates, outsideCalls, fnIn, fnOut>>

\* DataRepository.delete(id), lines 211-220, in a transaction scope and, with
\* the immediate invalidation of line 214, outside a transaction.
Delete(r, scope, id) ==
    IF scope = "tx"
    THEN
       /\ ScopeLive(r, scope)
       /\ txn[r].ops < MaxTxOps
       /\ LET state == Ambient(r, scope)
          IN /\ InTransaction(state)
             /\ txn' = [txn EXCEPT
                   ![r].ops = @ + 1,
                   ![r].handles = @ \cup {GetDb(state)},
                   ![r].writtenRecords = RecordWrite(state.writtenRecords, TableName, IdText(id))[1],
                   ![r].overlay[id] = Null]
             /\ store' = [store EXCEPT ![state.cache] =
                   IF InvalidatesNow(state)
                   THEN InvalidatedStore(@, reverseIndex[state.cache], TableName, IdText(id))
                   ELSE @]
             /\ reverseIndex' = [reverseIndex EXCEPT ![state.cache] =
                   IF InvalidatesNow(state)
                   THEN InvalidatedIndex(@, TableName, IdText(id))
                   ELSE @]
       /\ UNCHANGED <<runs, table, calls, idBatches, ldvars, auxvars>>
    ELSE
       /\ ScopeLive(r, scope)
       /\ RepoOps < MaxRepoOps
       /\ LET state == Ambient(r, scope)
          IN /\ ~InTransaction(state)
             /\ RecordWrite(state.writtenRecords, TableName, IdText(id)) = None
             /\ store' = [store EXCEPT ![state.cache] =
                   InvalidatedStore(@, reverseIndex[state.cache], TableName, IdText(id))]
             /\ reverseIndex' = [reverseIndex EXCEPT ![state.cache] =
                   InvalidatedIndex(@, TableName, IdText(id))]
             /\ table' = [table EXCEPT ![id] = Null]
             /\ runWrites' = [count |-> runWrites.count + 1,
                               calls |-> runWrites.calls \cup
                                  {n \in DOMAIN calls :
                                      calls[n].id = id /\ calls[n].state = "resolved"},
                               finds |-> runWrites.finds \cup
                                  {n \in DOMAIN finds : finds[n].state = "resolved"}]
       /\ runs' = [runs EXCEPT ![r].handles = @ \cup {GetDb(Ambient(r, scope))}]
       /\ UNCHANGED <<calls, idBatches, txn, ldvars>>
       /\ UNCHANGED <<pkField, conc, nest, recon, modelCreates, modelRegistry, finds, findBatches, creates, outsideCalls, fnIn, fnOut>>

\* DataRepository.create(data), lines 159-190, for an id the handle holds no
\* row of: insert, record the write, fetch the row back with findById (which in
\* a transaction queries the handle; outside a transaction nothing is recorded
\* or invalidated, and findById goes through the cache and the loader; the
\* insert and the start of that findById are taken as one step).
Create(r, scope, id, name) ==
    IF scope = "tx"
    THEN
       /\ ScopeLive(r, scope)
       /\ txn[r].ops < MaxTxOps
       /\ View(txn[r].overlay)[id] = Null
       /\ LET state == Ambient(r, scope)
          IN /\ InTransaction(state)
             /\ txn' = [txn EXCEPT
                   ![r].ops = @ + 1,
                   ![r].handles = @ \cup {GetDb(state)},
                   ![r].writtenRecords = RecordWrite(state.writtenRecords, TableName, IdText(id))[1],
                   ![r].overlay[id] = MkRow(id, name),
                   ![r].found = MkRow(id, name),
                   ![r].lastRead = [op |-> "findById", arg |-> id, queries |-> 1,
                                    handle |-> GetDb(state), fromCache |-> FALSE]]
       /\ UNCHANGED <<runs, store, reverseIndex, table, calls, idBatches, ldvars, auxvars>>
    ELSE
       /\ ScopeLive(r, scope)
       /\ RepoOps < MaxRepoOps
       /\ table[id] = Null
       /\ LET state == Ambient(r, scope)
             k == Len(calls) + 1
          IN /\ ~InTransaction(state)
             /\ RecordWrite(state.writtenRecords, TableName, IdText(id)) = None
             /\ table' = [table EXCEPT ![id] = MkRow(id, name)]
             /\ creates' = Append(creates, [run |-> r, id |-> id, name |-> name, call |-> k])
             /\ IF CacheHas(store[state.cache], FindByIdKey(id))
                THEN /\ calls' = Append(calls,
                           HitCall(r, id, store[state.cache][FindByIdKey(id)]))
                     /\ runs' = [runs EXCEPT ![r].handles = @ \cup {GetDb(state)}]
                ELSE /\ calls' = Append(calls, PendingCall(r, id))
                     /\ runs' = [runs EXCEPT ![r].handles = @ \cup {GetDb(state)},
                                             ![r].dataLoaders =
                           LoadedRegistry(@, LoaderKey, id, k)]
             /\ runWrites' = [count |-> runWrites.count + 1,
                               calls |-> runWrites.calls \cup
                                  {n \in DOMAIN calls :
                                      calls[n].id = id /\ calls[n].state = "resolved"},
                               finds |-> runWrites.finds \cup
                                  {n \in DOMAIN finds : finds[n].state = "resolved"}]
       /\ UNCHANGED <<store, reverseIndex, idBatches, txn, ldvars>>
       /\ UNCHANGED <<pkField, conc, nest, recon, modelCreates, modelRegistry, finds, findBatches, outsideCalls, fnIn, fnOut>>

\* ---- relation loaders (schema/relations.ts) -----------------------------
\* loadRelation(instance, rel), lines 246-303, for a hasMany, hasOne or
\* belongsTo relation: one query on the db of getCurrentContext().
LoadRelation(r, scope) ==
    /\ ScopeLive(r, scope)
    /\ LET state == Ambient(r, scope)
       IN IF scope = "tx"
          THEN /\ txn[r].ops < MaxTxOps
               /\ txn' = [txn EXCEPT ![r].ops = @ + 1,
                                     ![r].handles = @ \cup {GetDb(state)}]
               /\ UNCHANGED runs
          ELSE /\ runs' = [runs EXCEPT ![r].handles = @ \cup {GetDb(state)}]
               /\ UNCHANGED txn
    /\ UNCHANGED <<store, reverseIndex, table, calls, idBatches, ldvars, auxvars>>

\* ---- withTransaction (model/BaseModel.ts) --------------------------------
\* Values a callback may throw: an Error object, and the falsy values
\* undefined, null, 0 and the empty string.
Thrown == {"Error", Undefined, Null, "0", ""}

\* JavaScript truthiness of a thrown value, as tested by `!error` and `if (error)`.
Truthy(v) == v \notin {Undefined, Null, "0", ""}

\* Mutant of TxState: the transaction context takes the enclosing registry.
TxStateSharingLoaders(state, trx) ==
    [db |-> trx, cache |-> state.cache, writtenRecords |-> Some({}),
     dataLoaders |-> state.dataLoaders]

\* withTransaction, lines 175-180: txState, built from the ambient state and
\* the engine's transaction handle.
TxState(state, trx) ==
    [db |-> trx, cache |-> state.cache, writtenRecords |-> Some({}), dataLoaders |-> <<>>]

\* Mutant of AlsRun: entering the nested scope overwrites the enclosing store.
AlsRunOverwrites(enclosing, nested) == nested

\* als.run(txState, ...), line 183: the enclosing store once the nested scope
\* is entered. AsyncLocalStorage shadows it and leaves it as it was.
AlsRun(enclosing, nested) == enclosing

\* withTransaction, lines 168-183: the ambient state is read, the engine opens
\* a transaction and calls back with its handle, txState is built and fn
\* starts under it.
WithTransaction(r) ==
    /\ runs[r].started
    /\ txn[r].status = "none"
    /\ LET state == Ambient(r, "run")
           txState == TxState(state, "trx")
           enclosing == AlsRun(state, txState)
       IN /\ txn' = [txn EXCEPT ![r].status = "open", ![r].engine = "begun",
                                ![r].db = txState.db, ![r].cache = txState.cache,
                                ![r].writtenRecords = txState.writtenRecords[1],
                                ![r].dataLoaders = txState.dataLoaders]
          /\ runs' = [runs EXCEPT ![r].cache = enclosing.cache,
                                  ![r].dataLoaders = enclosing.dataLoaders]
    /\ UNCHANGED <<store, reverseIndex, table, calls, idBatches, ldvars, auxvars>>

\* withTransaction, line 185: fn's promise fulfils.
FnReturn(r) ==
    /\ txn[r].status = "open"
    /\ txn' = [txn EXCEPT ![r].status = "fnReturned"]
    /\ UNCHANGED <<runs, store, reverseIndex, table, calls, idBatches, ldvars, auxvars>>

\* withTransaction, lines 186-188: fn throws e, which the catch stores in error.
FnThrow(r, e) ==
    /\ txn[r].status = "open"
    /\ txn' = [txn EXCEPT ![r].status = "fnThrew", ![r].error = e, ![r].threw = TRUE]
    /\ UNCHANGED <<runs, store, reverseIndex, table, calls, idBatches, ldvars, auxvars>>

\* withTransaction, lines 192-195: invalidateKeysForId for every written record.
RECURSIVE InvalidatedAll(_, _)
InvalidatedAll(cache, written) ==
    IF written = {}
    THEN cache
    ELSE LET key == CHOOSE k \in written : TRUE
         IN InvalidatedAll(
               [store |-> InvalidatedStore(cache.store, cache.reverseIndex, key[1], key[2]),
                reverseIndex |-> InvalidatedIndex(cache.reverseIndex, key[1], key[2])],
               written \ {key})

\* withTransaction, line 191: whether the written records are invalidated.
ShouldInvalidate(error, written) ==
    ~Truthy(error) /\ written # None /\ written[1] # {}

\* withTransaction, line 197: whether the engine's callback throws.
ShouldThrow(error) == Truthy(error)

\* withTransaction, lines 190-198, inside the engine's callback, after fn has
\* settled: invalidate, then throw the error or return the result.
Reconcile(r) ==
    /\ txn[r].status \in {"fnReturned", "fnThrew"}
    /\ LET c == runs[r].cache
           invalidate == ShouldInvalidate(txn[r].error, Some(txn[r].writtenRecords))
           after == IF invalidate
                    THEN InvalidatedAll([store |-> store[c], reverseIndex |-> reverseIndex[c]],
                                        txn[r].writtenRecords)
                    ELSE [store |-> store[c], reverseIndex |-> reverseIndex[c]]
       IN /\ store' = [store EXCEPT ![c] = after.store]
          /\ reverseIndex' = [reverseIndex EXCEPT ![c] = after.reverseIndex]
          /\ txn' = [txn EXCEPT
                ![r].status = IF ShouldThrow(txn[r].error) THEN "cbThrew" ELSE "cbReturned",
                ![r].invalidated = IF invalidate THEN txn[r].writtenRecords ELSE {}]
    /\ UNCHANGED <<runs, table, calls, idBatches, ldvars, auxvars>>

\* The engine's transaction().execute(callback), line 174, after the callback
\* has returned: the commit succeeds and withTransaction's promise fulfils.
EngineCommit(r) ==
    /\ txn[r].status = "cbReturned"
    /\ table' = View(txn[r].overlay)
    /\ txn' = [txn EXCEPT ![r].status = "settled", ![r].engine = "committed",
                          ![r].outcome = "resolved"]
    /\ UNCHANGED <<runs, store, reverseIndex, calls, idBatches, ldvars, auxvars>>

\* The same, when the engine fails to commit: the promise rejects.
EngineCommitFail(r) ==
    /\ txn[r].status = "cbReturned"
    /\ txn' = [txn EXCEPT ![r].status = "settled", ![r].engine = "commitFailed",
                          ![r].outcome = "rejected", ![r].settledWith = "CommitError"]
    /\ UNCHANGED <<runs, store, reverseIndex, table, calls, idBatches, ldvars, auxvars>>

\* The same, after the callback has thrown: the engine rolls back and the
\* promise rejects with what the callback threw.
EngineRollback(r) ==
    /\ txn[r].status = "cbThrew"
    /\ txn' = [txn EXCEPT ![r].status = "settled", ![r].engine = "rolledBack",
                          ![r].outcome = "rejected", ![r].settledWith = txn[r].error]
    /\ UNCHANGED <<runs, store, reverseIndex, table, calls, idBatches, ldvars, auxvars>>

Scopes == {"run", "tx"}
QueryErrors == {"QueryError"}

\* The run whose transaction is followed.
TxRuns == {"r1"}

\* One run with its findById calls and its transaction.
Next ==
    \/ \E r \in TxRuns : Run(r, "plain")
    \/ \E r \in TxRuns, scope \in Scopes, id \in Ids :
          (scope = "run" => Len(calls) < MaxTxCalls) /\ FindById(r, scope, id)
    \/ \E r \in TxRuns : DispatchIds(r)
    \/ \E b \in DOMAIN idBatches : BatchSettle(b)
    \/ \E b \in DOMAIN idBatches, err \in QueryErrors : BatchFail(b, err)
    \/ \E r \in TxRuns, ids \in IdLists : FindByIds(r, "tx", ids)
    \/ \E r \in TxRuns : Find(r, "tx")
    \/ \E r \in TxRuns, id \in Ids, name \in Names : Update(r, "tx", id, name)
    \/ \E r \in TxRuns, id \in Ids : Delete(r, "tx", id)
    \/ \E r \in TxRuns, id \in Ids, name \in Names : Create(r, "tx", id, name)
    \/ \E r \in TxRuns, scope \in Scopes : LoadRelation(r, scope)
    \/ \E r \in TxRuns : WithTransaction(r)
    \/ \E r \in TxRuns : FnReturn(r)
    \/ \E r \in TxRuns, e \in Thrown : FnThrow(r, e)
    \/ \E r \in TxRuns : Reconcile(r)
    \/ \E r \in TxRuns : EngineCommit(r)
    \/ \E r \in TxRuns : EngineCommitFail(r)
    \/ \E r \in TxRuns : EngineRollback(r)

\* Two runs, of the same or of different ORM contexts, with their findById calls.
RunsNext ==
    \/ \E r \in Runs, o \in Orms : Run(r, o)
    \/ \E r \in Runs, id \in Ids : Len(calls) < MaxCalls /\ FindById(r, "run", id)
    \/ \E r \in Runs : DispatchIds(r)
    \/ \E b \in DOMAIN idBatches : BatchSettle(b)
    \/ \E b \in DOMAIN idBatches, err \in QueryErrors : BatchFail(b, err)

\* ---- calls made with no run scope -------------------------------------
\* The error getCurrentContext() throws when als.getStore() is undefined
\* (context.ts, lines 270-276).
ContextMissing == "No ORM context found"

\* Repository and BaseModel operations, each with an argument list.
OutsideOps ==
    ({"find"} \X {<<w>> : w \in Wheres})
       \cup ({"findById", "create", "update", "delete"} \X {<<id>> : id \in Ids})
       \cup ({"findByIds"} \X IdLists)
       \cup ({"withTransaction"} \X {<<>>})

\* Mutant of Preamble: update and delete query a handle the repository keeps
\* before they record the write.
PreambleQueryFirst(op, arg) ==
    IF op \in {"update", "delete"} THEN <<"query", "recordWrite">>
    ELSE <<"getCurrentContext">>

\* What an operation calls, in order, up to its first query or transaction:
\* find (lines 29-37), findById (86-93), findByIds (125-133), create (160-162),
\* update (196-205), delete (212-219), withTransaction (169-174).
Preamble(op, arg) ==
    CASE op \in {"find", "findById"} -> <<"inTransaction", "getDb", "query">>
      [] op = "findByIds" ->
            IF arg = <<>> THEN <<"return">> ELSE <<"inTransaction", "getDb", "query">>
      [] op = "create" -> <<"getDb", "query">>
      [] op \in {"update", "delete"} ->
            <<"recordWrite", "getCurrentCache", "inTransaction", "getDb", "query">>
      [] op = "withTransaction" -> <<"getCurrentContext", "transaction">>

\* The BaseModel helpers that start with getCurrentContext(): getCurrentDb
\* (line 206, under getDb), getCurrentCache (214), inTransaction (222),
\* recordWrite (230), getDataLoader (241).
ReadsContext(step) ==
    step \in {"getCurrentContext", "getDb", "getCurrentCache", "inTransaction",
              "recordWrite", "getDataLoader"}

\* An operation run from step i on with no store in the AsyncLocalStorage: the
\* first helper that reads the context throws, and the async operation rejects.
RECURSIVE RunOutside(_, _, _)
RunOutside(steps, i, acc) ==
    IF i > Len(steps)
    THEN [acc EXCEPT !.state = "resolved"]
    ELSE IF ReadsContext(steps[i])
         THEN [acc EXCEPT !.state = "rejected", !.error = ContextMissing]
         ELSE RunOutside(steps, i + 1,
                 [acc EXCEPT !.queries = @ + (IF steps[i] = "query" THEN 1 ELSE 0),
                             !.transactions = @ + (IF steps[i] = "transaction" THEN 1 ELSE 0)])

\* A repository operation or withTransaction called outside every run.
CallOutside(op, arg) ==
    /\ Len(outsideCalls) < MaxOutsideCalls
    /\ outsideCalls' = Append(outsideCalls,
          RunOutside(Preamble(op, arg), 1,
             [op |-> op, arg |-> arg, state |-> "pending", error |-> Null,
              queries |-> 0, transactions |-> 0]))
    /\ UNCHANGED <<ldvars, repovars>>
    /\ UNCHANGED <<pkField, conc, nest, recon, modelCreates, modelRegistry, finds, findBatches, runWrites, creates, fnIn, fnOut>>

OutsideNext == \E call \in OutsideOps : CallOutside(call[1], call[2])

\* ---- a RequestCache on its own ------------------------------------------
\* The cache object called, the keys and values given to it, and the
\* write-sets a commit may hand over (withTransaction, lines 191-196).
CacheUnderTest == "supplied"
CacheKeys == {FindByIdKey(1), FindByIdKey(2), FindKey("{}")}
CachedValues == {Null, MkRow(1, "a")}
WriteSets == SUBSET {IndexKey(TableName, IdText(id)) : id \in Ids} \ {{}}

\* Everything but the cache under test and the record of the last invalidation.
CacheFrame ==
    UNCHANGED <<runs, table, calls, idBatches, txn, ldvars, pkField, conc, nest, recon, modelCreates, modelRegistry, finds, findBatches,
                runWrites, creates, outsideCalls>>

\* cache.set(key, value)
SetEntry(key, value) ==
    /\ store' = [store EXCEPT ![CacheUnderTest] =
                    CacheSet(@, key, [value |-> value, writer |-> "r1"])]
    /\ UNCHANGED <<reverseIndex, fnIn, fnOut>>
    /\ CacheFrame

\* cache.delete(key)
DeleteEntry(key) ==
    /\ store' = [store EXCEPT ![CacheUnderTest] = CacheDelete(@, key)]
    /\ UNCHANGED <<reverseIndex, fnIn, fnOut>>
    /\ CacheFrame

\* cache.clear()
ClearEntries ==
    /\ store' = [store EXCEPT ![CacheUnderTest] = CacheClear(@)]
    /\ UNCHANGED <<reverseIndex, fnIn, fnOut>>
    /\ CacheFrame

\* cache.registerKeyForId(table, id, key)
RegisterKey(id, key) ==
    /\ reverseIndex' = [reverseIndex EXCEPT ![CacheUnderTest] =
                           RegisterKeyForId(@, TableName, IdText(id), key)]
    /\ UNCHANGED <<store, fnIn, fnOut>>
    /\ CacheFrame

\* cache.invalidateKeysForId(table, id); fnIn and fnOut keep the id of the
\* last call and the store keys it removed.
InvalidateKeys(id) ==
    /\ store' = [store EXCEPT ![CacheUnderTest] =
                    InvalidatedStore(@, reverseIndex[CacheUnderTest], TableName, IdText(id))]
    /\ reverseIndex' = [reverseIndex EXCEPT ![CacheUnderTest] =
                           InvalidatedIndex(@, TableName, IdText(id))]
    /\ fnIn' = <<id>>
    /\ fnOut' = <<DOMAIN store[CacheUnderTest] \ DOMAIN store'[CacheUnderTest]>>
    /\ CacheFrame

\* The invalidation loop of a commit (withTransaction, lines 191-196) for the
\* write-set written.
InvalidateWritten(written) ==
    /\ LET after == InvalidatedAll([store |-> store[CacheUnderTest],
                                    reverseIndex |-> reverseIndex[CacheUnderTest]], written)
       IN /\ store' = [store EXCEPT ![CacheUnderTest] = after.store]
          /\ reverseIndex' = [reverseIndex EXCEPT ![CacheUnderTest] = after.reverseIndex]
    /\ UNCHANGED <<fnIn, fnOut>>
    /\ CacheFrame

CacheNext ==
    \/ \E key \in CacheKeys, value \in CachedValues : SetEntry(key, value)
    \/ \E key \in CacheKeys : DeleteEntry(key)
    \/ ClearEntries
    \/ \E id \in Ids, key \in CacheKeys : RegisterKey(id, key)
    \/ \E id \in Ids : InvalidateKeys(id)
    \/ \E written \in WriteSets : InvalidateWritten(written)

\* ---- findByIds as a function of the stored rows ------------------------
\* The ids a caller asks for: the ids the table may hold and one it never holds.
AskedIds == Ids \cup {3}
AskedLists == UNION {[1..n -> AskedIds] : n \in 0..MaxIdsLen}

\* The tables the engine may hold: per id, no row or a row of that id.
StoredTables == [Ids -> Rows \cup {Null}] \ {t \in [Ids -> Rows \cup {Null}] :
                    \E id \in Ids : t[id] # Null /\ RowId(t[id]) # id}

FindByIdsInit ==
    /\ LdInit
    /\ runs = [r \in Runs |-> NotStarted]
    /\ store = [c \in CacheObjects |-> <<>>]
    /\ reverseIndex = [c \in CacheObjects |-> <<>>]
    /\ table \in StoredTables
    /\ calls = <<>>
    /\ idBatches = <<>>
    /\ txn = [r \in Runs |-> NoTxn]
    /\ AuxInit(IdField)

\* findByIds(ids), lines 124-153, called on the stored rows.
CallFindByIds(ids) ==
    /\ fnIn' = <<ids>>
    /\ fnOut' = <<FindByIdsResult(table, ids)>>
    /\ UNCHANGED <<ldvars, repovars>>
    /\ UNCHANGED <<pkField, conc, nest, recon, modelCreates, modelRegistry, finds, findBatches, runWrites, creates, outsideCalls>>

FindByIdsNext == \E ids \in AskedLists : CallFindByIds(ids)

\* ---- makeCacheKey applied to drawn parts --------------------------------
\* makeCacheKey(...parts)
CallMakeCacheKey(parts) ==
    /\ fnIn' = <<parts>>
    /\ fnOut' = <<MakeCacheKeyText(parts)>>
    /\ UNCHANGED <<ldvars, repovars>>
    /\ UNCHANGED <<pkField, conc, nest, recon, modelCreates, modelRegistry, finds, findBatches, runWrites, creates, outsideCalls>>

\* One call per behaviour.
CacheKeyNext == fnIn = <<>> /\ \E parts \in PartLists : CallMakeCacheKey(parts)

\* One run outside a transaction: its reads through cache and loaders, and its
\* writes with their immediate invalidation.
RepoRuns == {"r1"}
RepoNext ==
    \/ \E r \in RepoRuns : Run(r, "plain")
    \/ \E r \in RepoRuns, id \in Ids :
          RepoOps < MaxRepoOps /\ FindById(r, "run", id)
    \/ \E r \in RepoRuns, w \in Wheres :
          RepoOps < MaxRepoOps /\ FindRun(r, w)
    \/ \E r \in RepoRuns : DispatchIds(r)
    \/ \E r \in RepoRuns, w \in Wheres : DispatchFind(r, w)
    \/ \E b \in DOMAIN idBatches : BatchSettle(b)
    \/ \E b \in DOMAIN idBatches, err \in QueryErrors : BatchFail(b, err)
    \/ \E b \in DOMAIN findBatches : FindSettle(b)
    \/ \E b \in DOMAIN findBatches, err \in QueryErrors : FindFail(b, err)
    \/ \E r \in RepoRuns, id \in Ids, name \in Names : Update(r, "run", id, name)
    \/ \E r \in RepoRuns, id \in Ids : Delete(r, "run", id)
    \/ \E r \in RepoRuns, id \in Ids, name \in Names : Create(r, "run", id, name)

Init == LdInit /\ RepoInit /\ AuxInit(IdField)

\* The same, for a schema of either primary-key name.
RepoSpecInit == \E pk \in PkFields : LdInit /\ RepoInit /\ AuxInit(pk)

\* A run, its repository calls and its transaction.
Spec == Init /\ [][Next]_vars

\* Interleaved runs of ORM contexts.
SpecRuns == Init /\ [][RunsNext]_vars

\* One DataLoader with an arbitrary batch function.
SpecLoader == Init /\ [][LdNext]_vars

\* The promise of batch call b settles, lines 51-64.
BatchSettles(b) ==
    /\ b \in DOMAIN batchCalls
    /\ \/ \E results \in ResultLists(Len(batchCalls[b].keys)) : BatchFulfil(b, results)
       \/ \E err \in BatchErrors : BatchReject(b, err)

\* The same loader on a host that runs every queued microtask (queueMicrotask,
\* line 33) and with a batch function whose every call eventually settles.
SpecLoaderFair ==
    /\ Init
    /\ [][LdNext]_vars
    /\ WF_vars(Dispatch)
    /\ \A b \in 1..MaxLoads : WF_vars(BatchSettles(b))

\* ---- the model class (model/factory.ts) ---------------------------------
\* options.validators of the model: the name validator rejects these names.
RejectedNames == {"b"}

\* validate(), lines 216-233: the issues of an instance with these attributes.
Validate(row) == IF RowName(row) \in RejectedNames THEN <<"name: rejected">> ELSE <<>>

\* hydrate(dto), lines 158-165, and the constructor, lines 199-207: how the
\* promise of the model's create settles once repo.create has settled as call.
Hydrated(call) ==
    IF call.state = "rejected"
    THEN [state |-> "rejected", value |-> call.value]
    ELSE IF call.value = Null
         THEN [state |-> "resolved", value |-> Null]
         ELSE IF Validate(call.value) # <<>>
              THEN [state |-> "rejected", value |-> "VALIDATION_ERROR"]
              ELSE [state |-> "resolved", value |-> call.value]

\* The model's static create(data), lines 180-187, after `await
\* repo.create(data, idField)`: create n of the run settles.
ModelCreateSettle(n) ==
    /\ n \in DOMAIN creates
    /\ \A m \in modelCreates : m.create # n
    /\ calls[creates[n].call].state # "pending"
    /\ LET settled == Hydrated(calls[creates[n].call])
       IN modelCreates' = modelCreates \cup
             {[create |-> n, state |-> settled.state, value |-> settled.value]}
    /\ UNCHANGED <<ldvars, repovars>>
    /\ UNCHANGED <<pkField, conc, nest, recon, modelRegistry, finds, findBatches, runWrites, creates, outsideCalls, fnIn, fnOut>>

\* The model's create, which starts with repo.create (action Create), next to
\* findById calls of the same run.
ModelNext ==
    \/ \E r \in RepoRuns : Run(r, "plain")
    \/ \E r \in RepoRuns, id \in Ids :
          RepoOps < MaxRepoOps /\ FindById(r, "run", id)
    \/ \E r \in RepoRuns, id \in Ids, name \in Names : Create(r, "run", id, name)
    \/ \E r \in RepoRuns : DispatchIds(r)
    \/ \E b \in DOMAIN idBatches : BatchSettle(b)
    \/ \E b \in DOMAIN idBatches, err \in QueryErrors : BatchFail(b, err)
    \/ \E n \in DOMAIN creates : ModelCreateSettle(n)

\* The create calls of a model class in a run outside a transaction.
SpecModel == Init /\ [][ModelNext]_vars

\* ---- find calls of every where argument -----------------------------------
FindWheres == Wheres \cup DateWheres

FindNext ==
    \/ \E r \in RepoRuns : Run(r, "plain")
    \/ \E r \in RepoRuns, w \in FindWheres :
          Len(finds) < MaxFinds /\ FindRun(r, w)
    \/ \E r \in RepoRuns, w \in FindWheres : DispatchFind(r, w)
    \/ \E b \in DOMAIN findBatches : FindSettle(b)
    \/ \E b \in DOMAIN findBatches, err \in QueryErrors : FindFail(b, err)

\* The find calls of a run outside a transaction, Date-valued where arguments
\* included.
SpecFind == Init /\ [][FindNext]_vars

\* ---- the model registry (model/factory.ts) -------------------------------
\* A Set object, by its elements: an object with no own enumerable key.
SetOf(elems) == <<"set", elems>>

\* A field definition {type, modifiers} and a schema of fields id and value,
\* and possibly extra, in either insertion order.
Field(type, modifiers) == Obj(<< <<"type", Str(type)>>, <<"modifiers", SetOf(modifiers)>> >>)
IdFieldDef == Field("bigint", {"primary"})
SchemaA == Obj(<< <<"id", IdFieldDef>>, <<"value", Field("string", {})>> >>)
SchemaReordered == Obj(<< <<"value", Field("string", {})>>, <<"id", IdFieldDef>> >>)
SchemaExtra == Obj(<< <<"id", IdFieldDef>>, <<"value", Field("string", {})>>,
                      <<"extra", Field("integer", {"nullable"})>> >>)
SchemaNullable == Obj(<< <<"id", IdFieldDef>>, <<"value", Field("string", {"nullable"})>> >>)
SchemaOtherType == Obj(<< <<"id", IdFieldDef>>, <<"value", Field("integer", {})>> >>)
Schemas == {SchemaA, SchemaReordered, SchemaExtra, SchemaNullable, SchemaOtherType}
ModelNames == {"Thing", "Widget"}

\* stableStringify(obj) of the factory, lines 70-83
RECURSIVE StableStringify(_)
StableStringify(obj) ==
    CASE obj[1] = "object" ->
            LET keys == SortedKeys(obj[2])
            IN "{" \o Join([i \in DOMAIN keys |->
                               JsonString(keys[i]) \o ":" \o
                               StableStringify(EntryOf(obj[2], keys[i]))],
                           ",") \o "}"
      [] obj[1] = "set" -> "{" \o Join(<<>>, ",") \o "}"
      [] obj[1] = "array" ->
            "[" \o Join([i \in DOMAIN obj[2] |-> StableStringify(obj[2][i])], ",") \o "]"
      [] obj[1] = "bigint" -> NumberText(obj[2]) \o "n"
      [] obj[1] = "string" -> JsonString(obj[2])
      [] obj[1] = "number" -> NumberText(obj[2])
      [] obj[1] = "boolean" -> BoolText(obj[2])
      [] obj[1] = "null" -> "null"

\* schemasEqual(a, b), lines 85-87
SchemasEqual(a, b) == StableStringify(a) = StableStringify(b)

\* createModel(options), lines 119-134 and 279: return the registered class, or
\* throw the conflict, or make a class and register it. fnIn and fnOut keep
\* the call and what it returned or threw.
CreateModel(name, schema) ==
    /\ fnIn' = <<name, schema>>
    /\ IF name \in DOMAIN modelRegistry
       THEN IF ~SchemasEqual(modelRegistry[name].schema, schema)
            THEN /\ fnOut' = <<"thrown", "Model registration conflict">>
                 /\ UNCHANGED modelRegistry
            ELSE /\ fnOut' = <<"returned", modelRegistry[name].class>>
                 /\ UNCHANGED modelRegistry
       ELSE LET class == Cardinality(DOMAIN modelRegistry) + 1
            IN /\ fnOut' = <<"returned", class>>
               /\ modelRegistry' =
                     [n \in DOMAIN modelRegistry \cup {name} |->
                        IF n = name THEN [class |-> class, schema |-> schema]
                        ELSE modelRegistry[n]]
    /\ UNCHANGED <<ldvars, repovars>>
    /\ UNCHANGED <<pkField, conc, nest, recon, modelCreates, finds, findBatches, runWrites, creates, outsideCalls>>

RegistryNext == \E name \in ModelNames, schema \in Schemas : CreateModel(name, schema)

\* createModel called with every name and schema, in every order.
SpecRegistry == Init /\ [][RegistryNext]_vars

\* ---- the write-set at commit, for ids of any text -------------------------
\* Ids as text, one of them with a ':' in it, and the texts between the ':' of
\* a written key.
TextIds == {"1", "a", "a:b"}
Segments == {TableName, "1", "a", "b"}
SegmentLists == UNION {[1..n -> Segments] : n \in 1..3}

\* recordWrite, line 232: `${table}:${id}`
WrittenKey(tableName, idText) == tableName \o ":" \o idText

\* key.split(':'), line 193
Split(text) == CHOOSE segs \in SegmentLists : Join(segs, ":") = text

\* Set.prototype.add on a set kept in insertion order.
SetAdd(set, x) == IF \E i \in DOMAIN set : set[i] = x THEN set ELSE Append(set, x)

\* withTransaction, lines 192-195: the cache after the loop over the written
\* records from position i on, `const [table, id] = key.split(':')` and
\* invalidateKeysForId(table, id) for each.
RECURSIVE InvalidatedEach(_, _, _)
InvalidatedEach(cache, written, i) ==
    IF i > Len(written)
    THEN cache
    ELSE LET parts == Split(written[i])
         IN InvalidatedEach(
               [store |-> InvalidatedStore(cache.store, cache.reverseIndex,
                                           parts[1], parts[2]),
                reverseIndex |-> InvalidatedIndex(cache.reverseIndex, parts[1], parts[2])],
               written, i + 1)

\* Everything but the cache and the transaction over text ids.
ReconFrame ==
    UNCHANGED <<runs, table, calls, idBatches, txn, ldvars, pkField, conc, nest, modelCreates,
                modelRegistry, finds, findBatches, runWrites, creates, outsideCalls,
                fnIn, fnOut>>

\* A findById(id) outside the transaction that found the row, lines 109-114:
\* cache.set and registerKeyForId(table, value[idField], cacheKey).
ReadBefore(id) ==
    /\ recon.status = "none"
    /\ store' = [store EXCEPT ![CacheUnderTest] =
                    CacheSet(@, FindByIdKey(id), [value |-> id, writer |-> "r1"])]
    /\ reverseIndex' = [reverseIndex EXCEPT ![CacheUnderTest] =
                           RegisterKeyForId(@, TableName, id, FindByIdKey(id))]
    /\ UNCHANGED recon
    /\ ReconFrame

\* withTransaction, lines 175-183: the callback starts with an empty write-set.
BeginTx ==
    /\ recon.status = "none"
    /\ recon' = [recon EXCEPT !.status = "open"]
    /\ UNCHANGED <<store, reverseIndex>>
    /\ ReconFrame

\* An update or delete of id in the callback: recordWrite(table, String(id)).
WriteInTx(id) ==
    /\ recon.status = "open"
    /\ recon' = [recon EXCEPT !.writtenRecords = SetAdd(@, WrittenKey(TableName, id)),
                              !.written = @ \cup {id}]
    /\ UNCHANGED <<store, reverseIndex>>
    /\ ReconFrame

\* withTransaction, lines 190-196, after a callback that did not throw.
CommitTx ==
    /\ recon.status = "open"
    /\ LET c == CacheUnderTest
           after == InvalidatedEach([store |-> store[c], reverseIndex |-> reverseIndex[c]],
                                    recon.writtenRecords, 1)
       IN /\ store' = [store EXCEPT ![c] = after.store]
          /\ reverseIndex' = [reverseIndex EXCEPT ![c] = after.reverseIndex]
          /\ recon' = [recon EXCEPT
                !.status = "done",
                !.invalidated = [i \in DOMAIN recon.writtenRecords |->
                                   <<Split(recon.writtenRecords[i])[1],
                                     Split(recon.writtenRecords[i])[2]>>]]
    /\ ReconFrame

WriteSetNext ==
    \/ \E id \in TextIds : ReadBefore(id)
    \/ BeginTx
    \/ \E id \in TextIds : WriteInTx(id)
    \/ CommitTx

\* Reads, then a transaction that writes and commits, over ids of any text.
SpecWriteSet == Init /\ [][WriteSetNext]_vars

\* ---- withTransaction inside withTransaction --------------------------------
\* getCurrentContext(): the store of the innermost als.run.
Innermost(stack) == stack[Len(stack)].state

\* The handle the engine gives the callback of the n-th transaction open.
TrxHandle(n) == "trx" \o ToString(n)

\* Mutant of Recorded: the write is added to every write-set entered.
RecordedInAll(stack, tableName, idText) ==
    [i \in DOMAIN stack |->
       [stack[i] EXCEPT !.state.writtenRecords = RecordWrite(@, tableName, idText)]]

\* recordWrite(table, id), lines 229-234: the contexts after it; the write is
\* added to the write-set of getCurrentContext().
Recorded(stack, tableName, idText) ==
    [stack EXCEPT ![Len(stack)].state.writtenRecords = RecordWrite(@, tableName, idText)]

\* Everything but the contexts entered and the cache of the run.
NestFrame ==
    UNCHANGED <<runs, table, calls, idBatches, txn, ldvars, pkField, conc, recon, modelCreates,
                modelRegistry, finds, findBatches, runWrites, creates, outsideCalls,
                fnIn, fnOut>>

\* withTransaction, lines 168-183, on an engine that opens a transaction on the
\* handle it is asked on: txState is made from the ambient state and entered.
NestedBegin ==
    /\ Len(nest.stack) <= MaxDepth
    /\ LET n == Len(nest.stack)
           state == Innermost(nest.stack)
           txState == TxState(state, TrxHandle(n))
       IN nest' = [nest EXCEPT
             !.stack = Append([nest.stack EXCEPT ![n].state = AlsRun(state, txState)],
                              [state |-> txState, openedOn |-> GetDb(state)]),
             !.last = "opened"]
    /\ UNCHANGED <<store, reverseIndex>>
    /\ NestFrame

\* withTransaction on an engine that opens no transaction on a transactional
\* handle: transaction() throws and nothing is entered.
NestedRefused ==
    /\ InTransaction(Innermost(nest.stack))
    /\ nest' = [nest EXCEPT !.last = "refused"]
    /\ UNCHANGED <<store, reverseIndex>>
    /\ NestFrame

\* An update or delete of id made by the innermost callback.
NestedWrite(id) ==
    /\ InTransaction(Innermost(nest.stack))
    /\ nest' = [nest EXCEPT !.stack = Recorded(@, TableName, IdText(id)),
                            !.last = "wrote"]
    /\ UNCHANGED <<store, reverseIndex>>
    /\ NestFrame

\* withTransaction, lines 184-199: the innermost callback returns or throws;
\* its scope is left and, when it returned, its written records are
\* invalidated in the cache of the enclosing state.
NestedExit(threw) ==
    /\ Len(nest.stack) > 1
    /\ LET n == Len(nest.stack)
           txState == Innermost(nest.stack)
           c == txState.cache
           after == IF threw
                    THEN [store |-> store[c], reverseIndex |-> reverseIndex[c]]
                    ELSE InvalidatedAll([store |-> store[c], reverseIndex |-> reverseIndex[c]],
                                        txState.writtenRecords[1])
       IN /\ nest' = [nest EXCEPT !.stack = SubSeq(@, 1, n - 1),
                                  !.last = IF threw THEN "threw" ELSE "returned",
                                  !.left = txState.writtenRecords[1]]
          /\ store' = [store EXCEPT ![c] = after.store]
          /\ reverseIndex' = [reverseIndex EXCEPT ![c] = after.reverseIndex]
    /\ NestFrame

NestedNext ==
    \/ NestedBegin
    \/ NestedRefused
    \/ \E id \in Ids : NestedWrite(id)
    \/ \E threw \in BOOLEAN : NestedExit(threw)

\* withTransaction calls one inside another, within one run.
SpecNested == Init /\ [][NestedNext]_vars

\* ---- two withTransaction calls interleaved in one run ----------------------
\* The two calls, both made in the run's own scope.
Txs == {"t1", "t2"}

\* The RequestState of the run whose scope both calls are made in.
RunState == [db |-> "root", cache |-> CacheUnderTest, writtenRecords |-> None,
             dataLoaders |-> <<>>]

\* Mutant of RecordedIn: the write is added to every write-set that is open.
RecordedInEvery(txs, t, tableName, idText) ==
    [u \in DOMAIN txs |->
       IF txs[u].status = "open"
       THEN [txs[u] EXCEPT !.state = Some([@[1] EXCEPT !.writtenRecords =
                                              RecordWrite(@, tableName, idText)])]
       ELSE txs[u]]

\* recordWrite(table, id), lines 229-234, called in the callback of call t:
\* getCurrentContext() is the txState that call entered with als.run (line
\* 183), and the write is added to its write-set.
RecordedIn(txs, t, tableName, idText) ==
    [txs EXCEPT ![t].state = Some([@[1] EXCEPT !.writtenRecords =
                                      RecordWrite(@, tableName, idText)])]

\* Everything but the two calls and the cache they share.
ConcFrame ==
    UNCHANGED <<runs, table, calls, idBatches, txn, ldvars, pkField, nest, recon,
                modelCreates, modelRegistry, finds, findBatches, runWrites, creates,
                outsideCalls, fnIn, fnOut>>

\* A findById(id) of the run that found the row, before either call is made
\* (repository.ts, lines 109-114): cache.set and registerKeyForId.
ConcRead(id) ==
    /\ \A t \in Txs : conc[t].status = "none"
    /\ ~CacheHas(store[CacheUnderTest], FindByIdKey(id))
    /\ store' = [store EXCEPT ![CacheUnderTest] =
                    CacheSet(@, FindByIdKey(id), [value |-> MkRow(id, "a"), writer |-> "r1"])]
    /\ reverseIndex' = [reverseIndex EXCEPT ![CacheUnderTest] =
                           RegisterKeyForId(@, TableName, IdText(id), FindByIdKey(id))]
    /\ UNCHANGED conc
    /\ ConcFrame

\* withTransaction, lines 168-183, for call t: the engine opens a transaction
\* on the root handle, txState is built from the run's state and entered.
ConcBegin(t) ==
    /\ conc[t].status = "none"
    /\ conc' = [conc EXCEPT ![t].status = "open",
                            ![t].state = Some(TxState(RunState, TrxHandle(
                                  Cardinality({u \in Txs : conc[u].status # "none"}) + 1)))]
    /\ UNCHANGED <<store, reverseIndex>>
    /\ ConcFrame

\* An update or delete of id made by the callback of call t.
ConcWrite(t, id) ==
    /\ conc[t].status = "open"
    /\ conc' = RecordedIn(conc, t, TableName, IdText(id))
    /\ UNCHANGED <<store, reverseIndex>>
    /\ ConcFrame

\* withTransaction, lines 184-198, for call t, whose callback returned
\* (threw = FALSE, error left undefined) or threw e: the written records are
\* invalidated in the shared cache or not, and the engine's callback returns,
\* so that the engine commits, or throws, so that it rolls back.
ConcEnd(t, threw, e) ==
    /\ conc[t].status = "open"
    /\ ~threw => e = Undefined
    /\ LET c == RunState.cache
           written == conc[t].state[1].writtenRecords
           invalidate == ShouldInvalidate(e, written)
           after == IF invalidate
                    THEN InvalidatedAll([store |-> store[c], reverseIndex |-> reverseIndex[c]],
                                        written[1])
                    ELSE [store |-> store[c], reverseIndex |-> reverseIndex[c]]
       IN /\ store' = [store EXCEPT ![c] = after.store]
          /\ reverseIndex' = [reverseIndex EXCEPT ![c] = after.reverseIndex]
          /\ conc' = [conc EXCEPT
                ![t].status = "settled",
                ![t].threw = threw,
                ![t].error = e,
                ![t].invalidated = IF invalidate THEN written[1] ELSE {},
                ![t].outcome = IF ShouldThrow(e) THEN "rolledBack" ELSE "committed"]
    /\ ConcFrame

ConcNext ==
    \/ \E id \in Ids : ConcRead(id)
    \/ \E t \in Txs : ConcBegin(t)
    \/ \E t \in Txs, id \in Ids : ConcWrite(t, id)
    \/ \E t \in Txs, threw \in BOOLEAN, e \in Thrown : ConcEnd(t, threw, e)

\* Two withTransaction calls of one run, interleaved in every order.
SpecConcurrent == Init /\ [][ConcNext]_vars

\* A run outside a transaction, with its reads and writes.
SpecRepo == RepoSpecInit /\ [][RepoNext]_vars

\* Calls made with no run scope.
SpecOutside == Init /\ [][OutsideNext]_vars

\* findByIds over every stored table and id list.
SpecFindByIds == FindByIdsInit /\ [][FindByIdsNext]_vars

\* makeCacheKey over every list of parts.
SpecCacheKey == Init /\ [][CacheKeyNext]_vars

\* A RequestCache called in every order.
SpecCache == Init /\ [][CacheNext]_vars

\* ----------------------------------------------------------------------
\* Properties of runs, repository and transactions
\* ----------------------------------------------------------------------
\* The findById calls that are callbacks of findByIds call b.
IdBatchCallers(b) ==
    UNION {Range(idBatches[b].callbacks[i]) : i \in DOMAIN idBatches[b].callbacks}

\* The findById calls of run r still in the queue of its loader.
QueuedCalls(r) ==
    IF LoaderKey \in DOMAIN runs[r].dataLoaders
    THEN UNION {Range(runs[r].dataLoaders[LoaderKey].queue[i].cbs) :
                   i \in DOMAIN runs[r].dataLoaders[LoaderKey].queue}
    ELSE {}

\* C1 (as claimed): context isolation. For any two run invocations, of the same
\* or of different ORM contexts, a cache entry written during one run is never
\* served to a findById of the other (each run has a cache of its own), and no
\* loader batches calls of two runs (each run has a loader registry of its own).
C1_ContextIsolation ==
    /\ \A c \in DOMAIN calls : calls[c].hit => calls[c].writer = calls[c].run
    /\ \A b \in DOMAIN idBatches :
          \A c \in IdBatchCallers(b) : calls[c].run = idBatches[b].run

\* C2 (as claimed): transaction cache bypass. Every find, findById and findByIds
\* call made in the transaction context issues one query on the transactional
\* handle and never returns a value from the cache.
C2_EveryTxReadQueries ==
    \A r \in Runs :
       txn[r].lastRead.op # "none" =>
          /\ ~txn[r].lastRead.fromCache
          /\ txn[r].lastRead.queries = 1
          /\ txn[r].lastRead.handle = "trx"

\* C2 (amended): every find and findById call, and every findByIds call with a
\* non-empty id list, made in the transaction context issues one query on the
\* transactional handle; no read made in the transaction context, findByIds of
\* an empty list included, returns a value from the cache.
C2_TxCacheBypass ==
    \A r \in Runs :
       txn[r].lastRead.op # "none" =>
          /\ ~txn[r].lastRead.fromCache
          /\ ~(txn[r].lastRead.op = "findByIds" /\ txn[r].lastRead.arg = 0) =>
                /\ txn[r].lastRead.queries = 1
                /\ txn[r].lastRead.handle = "trx"

\* Witness of C2: id 1 was cached before the transaction began, the transaction
\* has rewritten its row, and the second read of the callback, a findById(1),
\* queried the transactional handle while the cache still holds the old row.
C2_Witness ==
    \E r \in Runs :
       /\ txn[r].status = "open"
       /\ txn[r].ops = 2
       /\ CacheHas(store[runs[r].cache], FindByIdKey(1))
       /\ store[runs[r].cache][FindByIdKey(1)].value = MkRow(1, "a")
       /\ txn[r].overlay[1] = MkRow(1, "b")
       /\ txn[r].lastRead = [op |-> "findById", arg |-> 1, queries |-> 1,
                             handle |-> "trx", fromCache |-> FALSE]

\* C3 (as claimed): commit invalidation. When a withTransaction whose callback
\* returned, having written id X, resolves after its commit, and the commit
\* changed what the engine holds for X, every findById of the enclosing context
\* having settled before the transaction began, the cache of the enclosing
\* context holds no findById entry for X, whatever was cached for X before (a
\* row or a not-found result): the next findById(X) misses and queries the
\* engine.
C3_CommitInvalidation ==
    [][\A r \in Runs :
          (/\ txn[r].outcome = "pending"
           /\ txn'[r].outcome = "resolved"
           /\ txn'[r].engine = "committed"
           /\ ~txn[r].threw
           /\ \A c \in DOMAIN calls : calls[c].state # "pending"
           /\ \A b \in DOMAIN idBatches : idBatches[b].settledIn = "none") =>
             \A id \in Ids :
                (/\ IndexKey(TableName, IdText(id)) \in txn[r].writtenRecords
                 /\ table'[id] # table[id]) =>
                   ~CacheHas(store'[runs[r].cache], FindByIdKey(id))]_vars

\* C4 (as claimed): invalidation ordering. The written records are invalidated
\* only after the engine has committed: whenever withTransaction has
\* invalidated records, the commit has happened, and nothing is invalidated
\* when the commit fails.
C4_InvalidationAfterCommit ==
    \A r \in Runs : txn[r].invalidated # {} => txn[r].engine = "committed"

\* C5 (as claimed): rollback non-invalidation. If the callback throws, the step
\* of withTransaction that follows removes no entry of the shared cache's store
\* and no reverse-index bucket.
C5_RollbackKeepsCache ==
    [][\A r \in Runs :
          (txn[r].status = "fnThrew" /\ txn'[r].status # "fnThrew") =>
             (store' = store /\ reverseIndex' = reverseIndex)]_vars

\* C6 (as claimed): transaction error propagation. For every value thrown by
\* the callback, falsy values included, the engine's callback throws, the
\* engine rolls back, and withTransaction rejects with that same value; it
\* never resolves.
C6_ErrorPropagation ==
    \A r \in Runs :
       txn[r].threw =>
          /\ txn[r].status # "cbReturned"
          /\ txn[r].outcome # "resolved"
          /\ txn[r].status = "settled" =>
                /\ txn[r].engine = "rolledBack"
                /\ txn[r].outcome = "rejected"
                /\ txn[r].settledWith = txn[r].error

\* C13: handle routing. Every query issued by a repository operation or a
\* relation loader while the transaction context is ambient went to the
\* transaction's handle, and every query issued while only the run context is
\* ambient (the loaders' batch queries included) went to the root handle.
C13_HandleRouting ==
    \A r \in Runs :
       /\ txn[r].handles \subseteq {"trx"}
       /\ runs[r].handles \subseteq {"root"}
       /\ txn[r].lastRead.handle \in {"none", "trx"}

\* Witness of C13: while the transaction is open and has queried its handle
\* twice, a findById batch of the run context was queried on the root handle.
C13_Witness ==
    \E r \in Runs :
       /\ txn[r].status = "open"
       /\ txn[r].ops = 2
       /\ txn[r].handles = {"trx"}
       /\ runs[r].handles = {"root"}
       /\ \E b \in DOMAIN idBatches :
             idBatches[b].run = r /\ idBatches[b].settledIn = "open"

\* C7 (state part): every findById that missed the cache is held by the queue
\* of its run's loader or by exactly one findByIds call of its run, at the
\* position of its own id; a findByIds call is one query whose ids are distinct
\* and in first-call order; a resolved caller holds the row the table has for
\* its own id, or null when it has none.
CoalescingInv ==
    /\ \A c \in DOMAIN calls :
          ~calls[c].hit =>
             /\ Cardinality({b \in DOMAIN idBatches : c \in IdBatchCallers(b)})
                   + (IF c \in QueuedCalls(calls[c].run) THEN 1 ELSE 0) = 1
             /\ \A b \in DOMAIN idBatches : \A i \in DOMAIN idBatches[b].keys :
                   c \in Range(idBatches[b].callbacks[i]) =>
                      /\ idBatches[b].keys[i] = calls[c].id
                      /\ idBatches[b].run = calls[c].run
                      /\ idBatches[b].state = "fulfilled" => calls[c].state = "resolved"
             /\ calls[c].state = "resolved" => calls[c].value = table[calls[c].id]
    /\ \A b \in DOMAIN idBatches :
          /\ idBatches[b].queries = 1
          /\ NoDuplicates(idBatches[b].keys)
          /\ \A i, j \in DOMAIN idBatches[b].keys :
                i < j => SeqMin(idBatches[b].callbacks[i]) < SeqMin(idBatches[b].callbacks[j])

\* C7 (step part): the dispatch of a run's loader makes exactly one findByIds
\* call, which takes every findById queued in that run since the last dispatch.
CoalescingStep ==
    Len(idBatches') # Len(idBatches) =>
       /\ Len(idBatches') = Len(idBatches) + 1
       /\ LET r == idBatches'[Len(idBatches')].run
          IN /\ QueuedCalls(r) # {}
             /\ \A c \in QueuedCalls(r) :
                   \E i \in DOMAIN idBatches'[Len(idBatches')].keys :
                      /\ idBatches'[Len(idBatches')].keys[i] = calls[c].id
                      /\ c \in Range(idBatches'[Len(idBatches')].callbacks[i])
             /\ runs'[r].dataLoaders[LoaderKey].queue = <<>>

\* C7: batch coalescing. N findById calls for distinct ids with the same
\* idField, issued in the same tick of one run outside a transaction and all
\* missing the cache, cause exactly one findByIds call whose argument is the
\* deduplicated ids in first-call order, and each caller receives the row (or
\* null) for its own id.
C7_BatchCoalescing == []CoalescingInv /\ [][CoalescingStep]_vars

\* Witness of C7: three findById calls of one run, for ids 2, 1 and 2, went out
\* as one findByIds([2, 1]); the callers of 2 got null and the caller of 1 its row.
C7_Witness ==
    \E b \in DOMAIN idBatches :
       /\ idBatches[b].keys = <<2, 1>>
       /\ idBatches[b].callbacks = <<<<1, 3>>, <<2>>>>
       /\ idBatches[b].state = "fulfilled"
       /\ calls[1].value = Null /\ calls[3].value = Null
       /\ calls[2].value = MkRow(1, "a")
       /\ \A c \in 1..3 : calls[c].run = idBatches[b].run /\ calls[c].state = "resolved"

\* ----------------------------------------------------------------------
\* Properties of the DataLoader (checked under SpecLoader)
\* ----------------------------------------------------------------------
\* Where load c sits: the queue entries and the batch-call positions that hold
\* its callback.
QueueEntriesOf(c) == {i \in DOMAIN queue : c \in Range(queue[i].cbs)}

BatchPositionsOf(c) ==
    {p \in (DOMAIN batchCalls) \X (1..MaxLoads) :
        p[2] \in DOMAIN batchCalls[p[1]].keys /\ c \in CallbacksAt(p[1], p[2])}

BatchCallers(b) == UNION {CallbacksAt(b, i) : i \in DOMAIN batchCalls[b].keys}

\* C8 (state part): every load is held by exactly one queue entry or exactly one
\* position of exactly one batch call, under its own key; a batch call's keys are
\* distinct and in first-enqueue order; the loads of an earlier batch call were
\* all made before those of a later one; once the batch call fulfils, each of
\* its callers is resolved with the entry of the result list at the position of
\* its key (null when that entry is null, undefined or missing).
ExactlyOnceInv ==
    /\ \A c \in DOMAIN loads :
          /\ Cardinality(QueueEntriesOf(c)) + Cardinality(BatchPositionsOf(c)) = 1
          /\ \A i \in QueueEntriesOf(c) : queue[i].key = loads[c].key
          /\ \A p \in BatchPositionsOf(c) :
                /\ batchCalls[p[1]].keys[p[2]] = loads[c].key
                /\ batchCalls[p[1]].state = "fulfilled" =>
                      /\ loads[c].state = "resolved"
                      /\ LET rs == batchCalls[p[1]].results
                         IN loads[c].value =
                               IF p[2] <= Len(rs) /\ rs[p[2]] # Null /\ rs[p[2]] # Undefined
                               THEN rs[p[2]] ELSE Null
          /\ loads[c].state = "resolved" =>
                \E p \in BatchPositionsOf(c) : batchCalls[p[1]].state = "fulfilled"
    /\ \A b \in DOMAIN batchCalls :
          /\ batchCalls[b].keys # <<>>
          /\ NoDuplicates(batchCalls[b].keys)
          /\ \A i, j \in DOMAIN batchCalls[b].keys :
                i < j => SeqMin(batchCalls[b].callbacks[i]) < SeqMin(batchCalls[b].callbacks[j])
    /\ \A b1, b2 \in DOMAIN batchCalls :
          b1 < b2 => \A c1 \in BatchCallers(b1), c2 \in BatchCallers(b2) : c1 < c2

\* C8 (step part): a dispatch makes one batch call, which takes every load that
\* was queued, and leaves the queue empty.
ExactlyOnceStep ==
    Len(batchCalls') # Len(batchCalls) =>
        /\ Len(batchCalls') = Len(batchCalls) + 1
        /\ queue' = <<>>
        /\ \A c \in DOMAIN loads :
              QueueEntriesOf(c) # {} =>
                 \E i \in DOMAIN batchCalls'[Len(batchCalls')].keys :
                    /\ batchCalls'[Len(batchCalls')].keys[i] = loads[c].key
                    /\ c \in Range(batchCalls'[Len(batchCalls')].callbacks[i])

\* C8: DataLoader exactly-once dispatch. Every key passed to load is sent to the
\* batch function in exactly one batch call; all distinct keys queued since the
\* previous dispatch go in a single call, in first-enqueue order, and each waiting
\* caller is resolved with the result at the position of its key.
C8_ExactlyOnceDispatch == []ExactlyOnceInv /\ [][ExactlyOnceStep]_vars

\* Witness of C8: a first batch call with two keys has fulfilled with two
\* different values, each caller holds the value at its key's position, and a
\* second batch call was made for loads queued after the first dispatch.
C8_Witness ==
    /\ Len(batchCalls) >= 2
    /\ batchCalls[1].state = "fulfilled"
    /\ Len(batchCalls[1].keys) = 2
    /\ batchCalls[1].results = <<"vb", "va">>
    /\ \E c1, c2 \in DOMAIN loads :
          /\ loads[c1].state = "resolved" /\ loads[c1].value = "vb"
          /\ loads[c2].state = "resolved" /\ loads[c2].value = "va"

\* C9: DataLoader deduplication. When the same key is passed to load several
\* times before a dispatch, the batch function receives that key once and every
\* one of those callers is resolved with the same result value.
C9_Deduplication ==
    \A b \in DOMAIN batchCalls :
       \A c1, c2 \in BatchCallers(b) :
          loads[c1].key = loads[c2].key =>
             /\ Cardinality({i \in DOMAIN batchCalls[b].keys :
                                batchCalls[b].keys[i] = loads[c1].key}) = 1
             /\ batchCalls[b].state = "fulfilled" =>
                   /\ loads[c1].state = "resolved"
                   /\ loads[c2].state = "resolved"
                   /\ loads[c1].value = loads[c2].value

\* Witness of C9: two loads of one key went into one batch call, which received
\* the key once next to another key, and both were resolved with its value.
C9_Witness ==
    \E b \in DOMAIN batchCalls : \E c1, c2 \in BatchCallers(b) :
       /\ c1 # c2
       /\ loads[c1].key = loads[c2].key
       /\ Len(batchCalls[b].keys) = 2
       /\ loads[c1].state = "resolved" /\ loads[c1].value = "va"
       /\ loads[c2].state = "resolved" /\ loads[c2].value = "va"

\* C10: batch-dispatch failure. When the batch function of a dispatch cycle
\* fails, every caller waiting on any key of that cycle is rejected with that
\* same error and none of them is resolved; a caller is rejected only by the
\* failure of its own cycle, so callers of other cycles are unaffected.
C10_BatchFailure ==
    /\ \A b \in DOMAIN batchCalls :
          batchCalls[b].state = "rejected" =>
             \A c \in BatchCallers(b) :
                loads[c].state = "rejected" /\ loads[c].value = batchCalls[b].error
    /\ \A c \in DOMAIN loads :
          loads[c].state = "rejected" =>
             \E b \in DOMAIN batchCalls :
                c \in BatchCallers(b) /\ batchCalls[b].state = "rejected"

\* Witness of C10: a cycle with two keys failed and both callers hold its error,
\* while the caller of a later cycle was resolved with a value.
C10_Witness ==
    \E b1, b2 \in DOMAIN batchCalls :
       /\ b1 < b2
       /\ batchCalls[b1].state = "rejected"
       /\ Len(batchCalls[b1].keys) = 2
       /\ \A c \in BatchCallers(b1) : loads[c].state = "rejected" /\ loads[c].value = "E2"
       /\ batchCalls[b2].state = "fulfilled"
       /\ \E c \in BatchCallers(b2) : loads[c].state = "resolved" /\ loads[c].value = "va"

\* ----------------------------------------------------------------------
\* Properties of reads and writes outside a transaction (checked under SpecRepo)
\* ----------------------------------------------------------------------
\* The find calls that are callbacks of batch-function call b of a find loader.
FindBatchCallers(b) ==
    UNION {Range(findBatches[b].callbacks[i]) : i \in DOMAIN findBatches[b].callbacks}

\* C11: no half-updated cache after a failed batch. The step in which the batch
\* query behind findById or find fails leaves the store and the reverse index
\* of every cache as they were, and rejects every caller of the batch with the
\* query's error.
C11_NoHalfUpdatedCache ==
    [][/\ \A b \in DOMAIN idBatches :
             (idBatches[b].state = "pending" /\ idBatches'[b].state = "rejected") =>
                /\ store' = store
                /\ reverseIndex' = reverseIndex
                /\ \A c \in IdBatchCallers(b) :
                      calls'[c].state = "rejected" /\ calls'[c].value = idBatches'[b].error
       /\ \A b \in DOMAIN findBatches :
             (findBatches[b].state = "pending" /\ findBatches'[b].state = "rejected") =>
                /\ store' = store
                /\ reverseIndex' = reverseIndex
                /\ \A c \in FindBatchCallers(b) :
                      finds'[c].state = "rejected" /\ finds'[c].error = findBatches'[b].error
      ]_vars

\* Witness of C11: with a findById result in the cache, the query of a later
\* findById batch and the query of a find batch have both failed.
C11_Witness ==
    /\ \E b \in DOMAIN idBatches : idBatches[b].state = "rejected"
    /\ \E b \in DOMAIN findBatches : findBatches[b].state = "rejected"
    /\ \E r \in Runs : runs[r].started /\ DOMAIN store[runs[r].cache] # {}

C14_OrderPreservation ==
    fnIn # <<>> =>
       LET ids == fnIn[1]
           out == fnOut[1]
       IN /\ Len(out) = Len(ids)
          /\ \A i \in 1..Len(ids) :
                IF \E id \in Ids : id = ids[i] /\ table[id] # Null
                THEN out[i] = table[ids[i]] /\ RowId(out[i]) = ids[i]
                ELSE out[i] = Null

\* Witness of C14: findByIds([3, 2, 1]) on a table holding id 1 only returned
\* [null, null, row(1)].
C14_Witness ==
    /\ fnIn = <<(<<3, 2, 1>>)>>
    /\ table[1] # Null
    /\ table[2] = Null
    /\ fnOut = <<(<<Null, Null, table[1]>>)>>

\* Two values are the same value when they differ at most in the order in
\* which objects list their keys, at any depth.
RECURSIVE SameValue(_, _)
SameValue(a, b) ==
    IF a[1] # b[1] THEN FALSE
    ELSE IF a[1] = "object"
         THEN /\ {a[2][i][1] : i \in DOMAIN a[2]} = {b[2][i][1] : i \in DOMAIN b[2]}
              /\ \A i \in DOMAIN a[2] :
                    SameValue(a[2][i][2], EntryOf(b[2], a[2][i][1]))
    ELSE IF a[1] = "array"
         THEN /\ Len(a[2]) = Len(b[2])
              /\ \A i \in DOMAIN a[2] : SameValue(a[2][i], b[2][i])
    ELSE a = b
SameParts(ps, qs) ==
    Len(ps) = Len(qs) /\ \A i \in DOMAIN ps : SameValue(ps[i], qs[i])

\* C15: cache-key stability. makeCacheKey gives the same string when a part is
\* replaced by an object that differs from it only in key order (at any
\* depth), a different string when the string part '1' (or '2') is replaced
\* by the number 1 (or 2), and a different string when an array part is
\* replaced by an array of the same elements in another order.
C15_CacheKeyStability ==
    fnIn # <<>> =>
       LET parts == fnIn[1]
           key == fnOut[1]
       IN \A i \in DOMAIN parts :
             /\ \A v \in Objects :
                   SameValue(parts[i], v) =>
                      MakeCacheKeyText([parts EXCEPT ![i] = v]) = key
             /\ \A n \in Numbers :
                   parts[i] = Str(NumberText(n)) =>
                      MakeCacheKeyText([parts EXCEPT ![i] = Num(n)]) # key
             /\ \A a \in Arrays :
                   (/\ parts[i][1] = "array"
                    /\ a # parts[i]
                    /\ Len(a[2]) = Len(parts[i][2])
                    /\ \A e \in {a[2][j] : j \in DOMAIN a[2]} :
                          Cardinality({j \in DOMAIN a[2] : a[2][j] = e}) =
                          Cardinality({j \in DOMAIN a[2] : parts[i][2][j] = e}))
                   => MakeCacheKeyText([parts EXCEPT ![i] = a]) # key

\* Witness of C15: makeCacheKey('1', {y: {y: 2, x: 1}, x: 1}) gave
\* 's:1:o:{"x":1,"y":{"x":1,"y":2}}'.
C15_Witness ==
    /\ fnIn = <<(<<Str("1"),
                   Obj(<<<<"y", Obj(<<<<"y", Num(2)>>, <<"x", Num(1)>>>>)>>,
                         <<"x", Num(1)>>>>)>>)>>
    /\ fnOut = <<"s:1:o:{\"x\":1,\"y\":{\"x\":1,\"y\":2}}">>

\* C16: cache-key uniqueness. No list of parts that differs from the given one
\* in length, in the type of a part or in the value of a part has the same
\* key string.
C16_CacheKeyUniqueness ==
    fnIn # <<>> =>
       \A other \in PartLists :
          ~SameParts(other, fnIn[1]) => MakeCacheKeyText(other) # fnOut[1]

\* A findById(id), or a find(w), of the run has completed with a result and no
\* write was made since.
CompletedFindById(id) ==
    \E c \in DOMAIN calls :
       calls[c].id = id /\ calls[c].state = "resolved" /\ c \notin runWrites.calls
CompletedFind(w) ==
    \E f \in DOMAIN finds :
       finds[f].where = w /\ finds[f].state = "resolved" /\ f \notin runWrites.finds

\* C17: request-level cache hit. Outside a transaction, a findById(id) called
\* after a findById(id) of the run completed, with no write to that id in
\* between, returns the cached value and neither queues a load nor issues a
\* query; likewise a find(w) called after a find(w) completed with no write in
\* between.
C17_RequestCacheHit ==
    [][/\ (Len(calls') = Len(calls) + 1 /\ Len(creates') = Len(creates)) =>
            LET new == calls'[Len(calls')]
            IN CompletedFindById(new.id) =>
                  /\ new.hit
                  /\ new.state = "resolved"
                  /\ new.value = store[runs[new.run].cache][FindByIdKey(new.id)].value
                  /\ runs' = runs
                  /\ idBatches' = idBatches
       /\ Len(finds') = Len(finds) + 1 =>
            LET new == finds'[Len(finds')]
            IN CompletedFind(new.where) =>
                  /\ new.hit
                  /\ new.state = "resolved"
                  /\ new.value = store[runs[new.run].cache][FindKey(new.where)].value
                  /\ runs' = runs
                  /\ findBatches' = findBatches]_vars

\* Witness of C17: a findById loaded a row, one write was made that followed
\* no completed read of its id, and a second findById of the first id was
\* answered from the cache with that row: one batch only was queried.
C17_Witness ==
    /\ Len(calls) = 2
    /\ calls[1].state = "resolved" /\ ~calls[1].hit /\ calls[1].value # Null
    /\ calls[2].id = calls[1].id /\ calls[2].hit /\ calls[2].value = calls[1].value
    /\ runWrites.count = 1 /\ runWrites.calls = {}
    /\ Len(idBatches) = 1

\* The cached result under key holds the record of id: a findById result that
\* is its row, or a find result with its row among the rows.
HoldsRecord(key, entry, id) ==
    IF key[2] = "findById"
    THEN entry.value # Null /\ RowId(entry.value) = id
    ELSE \E i \in DOMAIN entry.value : RowId(entry.value[i]) = id

\* C18: immediate invalidation outside a transaction. When update(id) or
\* delete(id) has run outside a transaction, the run's cache holds no findById
\* or find result that contains the record of id, and, the record being
\* stored when the call was made, no entry for findById(id) at all, so that
\* the next findById(id) queries the engine.
C18_ImmediateInvalidation ==
    [][\A r \in RepoRuns, id \in Ids :
          ((\E name \in Names : Update(r, "run", id, name)) \/ Delete(r, "run", id)) =>
             LET cached == store'[runs[r].cache]
             IN /\ \A key \in DOMAIN cached : ~HoldsRecord(key, cached[key], id)
                /\ table[id] # Null => FindByIdKey(id) \notin DOMAIN cached]_vars

\* The first half of C18 for a schema whose primary key is named 'id'.
C18_IdSchemaInvalidation ==
    [][\A r \in RepoRuns, id \in Ids :
          ((\E name \in Names : Update(r, "run", id, name)) \/ Delete(r, "run", id))
           /\ pkField = IdField =>
             LET cached == store'[runs[r].cache]
             IN \A key \in DOMAIN cached : ~HoldsRecord(key, cached[key], id)]_vars

\* C19: reverse-index invariant. For every cache key the store holds and
\* every record its cached find or findById result contains, the bucket of
\* that record's (table, primary key) in the reverse index holds the key,
\* whatever the schema's primary-key field is named.
C19_ReverseIndexInvariant ==
    \A c \in CacheObjects :
       \A key \in DOMAIN store[c], id \in Ids :
          HoldsRecord(key, store[c][key], id) =>
             /\ IndexKey(TableName, IdText(id)) \in DOMAIN reverseIndex[c]
             /\ key \in reverseIndex[c][IndexKey(TableName, IdText(id))]

\* The same for a schema whose primary key is named 'id'.
C19_IdSchemaIndexed == pkField = IdField => C19_ReverseIndexInvariant

\* C20: create returns the freshly fetched row. When create(data) outside a
\* transaction has resolved and it is the only write the run made, it returned
\* the row as stored by the insert, also when a not-found result for that id
\* was cached before.
C20_CreateReturnsRow ==
    \A k \in DOMAIN creates :
       LET fetch == calls[creates[k].call]
       IN (fetch.state = "resolved" /\ runWrites.count = 1) =>
             fetch.value = MkRow(creates[k].id, creates[k].name)

\* C21: invalidateKeysForId(table, id) removes from the store every cache key
\* registered for (table, id) and then removes that bucket; calling it again,
\* or for an id with no bucket, changes nothing.
C21_InvalidateKeysForId ==
    [][\A id \in Ids :
          InvalidateKeys(id) =>
             LET indexKey == IndexKey(TableName, IdText(id))
                 st == store[CacheUnderTest]
                 ri == reverseIndex[CacheUnderTest]
                 st2 == store'[CacheUnderTest]
                 ri2 == reverseIndex'[CacheUnderTest]
             IN /\ indexKey \in DOMAIN ri => \A key \in ri[indexKey] : key \notin DOMAIN st2
                /\ indexKey \notin DOMAIN ri2
                /\ indexKey \notin DOMAIN ri => st2 = st /\ ri2 = ri
                /\ InvalidatedStore(st2, ri2, TableName, IdText(id)) = st2
                /\ InvalidatedIndex(ri2, TableName, IdText(id)) = ri2]_vars

\* Witness of C21: invalidateKeysForId('users', 1) removed the two stored keys
\* of its bucket and the bucket, and left the third key stored.
C21_Witness ==
    /\ fnIn = <<1>>
    /\ fnOut = <<{FindByIdKey(1), FindKey("{}")}>>
    /\ DOMAIN store[CacheUnderTest] = {FindByIdKey(2)}
    /\ IndexKey(TableName, "1") \notin DOMAIN reverseIndex[CacheUnderTest]

C23_TransactionContextShape ==
    \A r \in Runs :
       txn[r].status = "open" =>
          LET txState == Ambient(r, "tx")
              enclosing == Ambient(r, "run")
          IN /\ txState.db = "trx"
             /\ txState.cache = enclosing.cache
             /\ InTransaction(txState)
             /\ txn[r].ops = 0 =>
                   /\ txState.writtenRecords = Some({})
                   /\ txState.dataLoaders = <<>>

\* Witness of C23: a callback has just started in a run whose own registry
\* holds a loader and whose cache holds an entry.
C23_Witness ==
    \E r \in Runs :
       /\ txn[r].status = "open"
       /\ txn[r].ops = 0
       /\ LoaderKey \in DOMAIN runs[r].dataLoaders
       /\ store[runs[r].cache] # <<>>

\* C24: scope restoration. No step of withTransaction or of an operation run
\* in its scope changes the enclosing context, and once withTransaction has
\* returned or thrown the caller's ambient context is the enclosing one: root
\* handle, no write-set, the enclosing registry and cache, and no code runs
\* in the transaction's scope.
C24_ScopeRestoration ==
    [][\A r \in Runs :
          /\ txn'[r] # txn[r] =>
                /\ runs'[r].cache = runs[r].cache
                /\ runs'[r].dataLoaders = runs[r].dataLoaders
          /\ (txn[r].status # "settled" /\ txn'[r].status = "settled") =>
                /\ GetDb(Ambient(r, "run")') = "root"
                /\ ~InTransaction(Ambient(r, "run")')
                /\ Ambient(r, "run")'.dataLoaders = runs[r].dataLoaders
                /\ Ambient(r, "run")'.cache = runs[r].cache
                /\ ~ScopeLive(r, "tx")']_vars

\* Witness of C24: withTransaction has thrown after an operation in its scope,
\* in a run whose registry holds a loader.
C24_Witness ==
    \E r \in Runs :
       /\ txn[r].status = "settled"
       /\ txn[r].outcome = "rejected"
       /\ txn[r].ops > 0
       /\ LoaderKey \in DOMAIN runs[r].dataLoaders

\* C25: deferred invalidation. No repository operation executed in the
\* transaction context while the callback runs adds, changes or removes an
\* entry of the shared store or of the reverse index; it can only add to the
\* write-set.
C25_DeferredInvalidation ==
    [][\A r \in Runs :
          (txn[r].status = "open" /\ txn'[r].ops = txn[r].ops + 1) =>
             /\ store' = store
             /\ reverseIndex' = reverseIndex
             /\ txn[r].writtenRecords \subseteq txn'[r].writtenRecords]_vars

\* Witness of C25: the callback is running, it has written a record, and the
\* findById result of that record cached before is still in the store and in
\* the record's bucket.
C25_Witness ==
    \E r \in Runs, id \in Ids :
       /\ txn[r].status = "open"
       /\ IndexKey(TableName, IdText(id)) \in txn[r].writtenRecords
       /\ FindByIdKey(id) \in DOMAIN store[runs[r].cache]
       /\ IndexKey(TableName, IdText(id)) \in DOMAIN reverseIndex[runs[r].cache]

\* A position of a batch result that holds no value: null, undefined, or beyond
\* the end of the returned list.
Nullish(results, i) == i \notin DOMAIN results \/ results[i] \in {Null, Undefined}

\* The callers of a fulfilled DataLoader batch call at a nullish position are
\* resolved with null.
C26_LoaderPart ==
    \A b \in DOMAIN batchCalls :
       batchCalls[b].state = "fulfilled" =>
          \A i \in DOMAIN batchCalls[b].keys :
             Nullish(batchCalls[b].results, i) =>
                \A c \in CallbacksAt(b, i) :
                   loads[c].state = "resolved" /\ loads[c].value = Null

\* The findById callers of a fulfilled batch whose id had no row are resolved
\* with null.
C26_RunPart ==
    \A b \in DOMAIN idBatches :
       idBatches[b].state = "fulfilled" =>
          \A i \in DOMAIN idBatches[b].keys :
             Nullish(idBatches[b].results, i) =>
                \A c \in Range(idBatches[b].callbacks[i]) :
                   calls[c].state = "resolved" /\ calls[c].value = Null

\* The query of a findById finds no row for an id that has none: in a
\* transaction the call resolves to null, outside one the batch result holds
\* null at the id's position.
C26_QueryPart ==
    /\ \A r \in Runs, id \in Ids :
          (FindById(r, "tx", id) /\ InTransaction(Ambient(r, "tx"))
              /\ View(txn[r].overlay)[id] = Null) => txn'[r].found = Null
    /\ \A r \in Runs :
          DispatchIds(r) =>
             LET batch == idBatches'[Len(idBatches')]
             IN \A i \in DOMAIN batch.keys :
                   table[batch.keys[i]] = Null => batch.results[i] = Null

C26_FindByIdWitness ==
    \E r \in Runs, id \in Ids :
       /\ \E c \in DOMAIN calls :
             /\ calls[c].id = id /\ ~calls[c].hit
             /\ calls[c].state = "resolved" /\ calls[c].value = Null
       /\ txn[r].status = "open"
       /\ txn[r].lastRead.op = "findById" /\ txn[r].lastRead.arg = id
       /\ View(txn[r].overlay)[id] = Null
       /\ txn[r].found = Null

\* ----------------------------------------------------------------------
\* Properties of the model class (checked under SpecModel)
\* ----------------------------------------------------------------------
\* The attributes given to create call n, as an instance would hold them.
Attributes(n) == MkRow(creates[n].id, creates[n].name)

\* C27 (as claimed): validation precedes the write. When create is called with
\* attributes that fail the validators, no insert is issued, so the table holds
\* no row for them, and the call is rejected with a ValidationError.
C27_ValidationPrecedesWrite ==
    /\ \A n \in DOMAIN creates :
          Validate(Attributes(n)) # <<>> => table[creates[n].id] = Null
    /\ \A m \in modelCreates :
          Validate(Attributes(m.create)) # <<>> =>
             m.state = "rejected" /\ m.value = "VALIDATION_ERROR"

\* What the code does instead: a create with failing attributes was rejected
\* with the ValidationError while the row it inserted is in the table.
C27_ErrorAfterInsert ==
    \E m \in modelCreates :
       /\ Validate(Attributes(m.create)) # <<>>
       /\ m.state = "rejected" /\ m.value = "VALIDATION_ERROR"
       /\ table[creates[m.create].id] = Attributes(m.create)

\* ----------------------------------------------------------------------
\* Properties of find batching (checked under SpecFind)
\* ----------------------------------------------------------------------
\* The find calls waiting in the queue of loader key of run r.
QueuedFinds(r, key) ==
    UNION {Range(cbs) : cbs \in Range(QueueCallbacks(runs[r].dataLoaders[key].queue))}

\* C28 (as claimed): find batching. The find calls of one dispatch cycle have
\* deeply equal where arguments, cause exactly one query, made for that where,
\* and all receive its rows; calls waiting with equal where arguments wait in
\* one loader, and calls with different where arguments are in different
\* cycles, so each receives the rows of a query for its own where.
C28_FindBatching ==
    /\ \A r \in Runs : \A key1, key2 \in DOMAIN runs[r].dataLoaders :
          \A k1 \in QueuedFinds(r, key1), k2 \in QueuedFinds(r, key2) :
             (key1[2] = "find" /\ key2[2] = "find" /\ finds[k1].where = finds[k2].where)
                => key1 = key2
    /\ \A b \in DOMAIN findBatches :
          /\ findBatches[b].queries = 1
          /\ \A k \in FindBatchCallers(b) :
                /\ finds[k].where = findBatches[b].where
                /\ findBatches[b].state = "fulfilled" =>
                      /\ finds[k].state = "resolved"
                      /\ finds[k].value = FindBatch(table, finds[k].where)

\* What the code does instead: two find calls with Date values of different
\* times went into one cycle, and the second was resolved with the rows of the
\* first one's where, which are not the rows its own where selects.
C28_SharedResult ==
    \E b \in DOMAIN findBatches : \E k1, k2 \in FindBatchCallers(b) :
       /\ finds[k1].where = "{createdAt:d1}"
       /\ finds[k2].where = "{createdAt:d2}"
       /\ finds[k2].state = "resolved"
       /\ finds[k2].value = <<MkRow(1, "a")>>
       /\ FindBatch(table, finds[k2].where) = <<>>

\* The part of C28 that holds: calls with equal where arguments issued before
\* the dispatch are answered by one query and receive the same rows.
C28_EqualWheresShareQuery ==
    \A b \in DOMAIN findBatches :
       /\ findBatches[b].queries = 1
       /\ \A k1, k2 \in FindBatchCallers(b) :
             (findBatches[b].state = "fulfilled" /\ finds[k1].where = finds[k2].where)
                => finds[k1].value = finds[k2].value

\* ----------------------------------------------------------------------
\* Further properties of the DataLoader (checked under SpecLoader)
\* ----------------------------------------------------------------------
\* C29: at most one dispatch is scheduled per tick. The number of dispatch
\* microtasks scheduled and not yet run is 1 when scheduled is true and 0 when
\* it is false, and the queue is non-empty only while a dispatch is scheduled.
C29_OneDispatchScheduled ==
    /\ microtasks = (IF scheduled THEN 1 ELSE 0)
    /\ queue # <<>> => scheduled

\* Witness of C29: after a first dispatch, two loads of different keys wait in
\* the queue behind a single scheduled dispatch.
C29_Witness ==
    /\ Len(batchCalls) = 1
    /\ Len(queue) = 2
    /\ scheduled
    /\ microtasks = 1

\* The result for key k of a loadMany call whose load of k is promise c: the
\* value the batch function gave at the position of k in the batch call that
\* held c, or null for none.
ResultFor(k, c) ==
    LET b == CHOOSE n \in DOMAIN batchCalls : c \in BatchCallers(n)
        i == CHOOSE n \in DOMAIN batchCalls[b].keys : batchCalls[b].keys[n] = k
    IN IF i \in DOMAIN batchCalls[b].results
          /\ batchCalls[b].results[i] \notin {Null, Undefined}
       THEN batchCalls[b].results[i]
       ELSE Null

\* A resolved loadMany holds one element per key, the result for that key, and
\* loadMany of no key is resolved with the empty list.
C30_ResultPart ==
    \A m \in DOMAIN loadManys :
       LET keys == loadManys[m].keys
           promise == LoadManyPromise(m)
       IN /\ Len(loadManys[m].promises) = Len(keys)
          /\ keys = <<>> => promise = [state |-> "resolved", value |-> <<>>]
          /\ promise.state = "resolved" =>
                /\ Len(promise.value) = Len(keys)
                /\ \A i \in DOMAIN keys :
                      promise.value[i] = ResultFor(keys[i], loadManys[m].promises[i])

\* loadMany of no key queues nothing, schedules no dispatch and calls no batch
\* function.
C30_EmptyPart ==
    LoadMany(<<>>) => UNCHANGED <<queue, scheduled, microtasks, batchCalls, loads>>

\* C30: loadMany(keys) resolves to a list of the same length as keys whose i-th
\* element is the result for keys[i], duplicates in keys included, and
\* loadMany([]) resolves to the empty list without the batch function being
\* called.
C30_LoadMany == []C30_ResultPart /\ [][C30_EmptyPart]_vars

\* Witness of C30: loadMany of the same key twice was resolved with the same
\* value twice, from a batch call that received the key once.
C30_Witness ==
    \E m \in DOMAIN loadManys :
       /\ loadManys[m].keys = <<"k1", "k1">>
       /\ LoadManyPromise(m) = [state |-> "resolved", value |-> <<"va", "va">>]
       /\ \E b \in DOMAIN batchCalls : batchCalls[b].keys = <<"k1">>

\* Second witness of C30: loadMany of no key was resolved with the empty list
\* and no batch call was made.
C30_EmptyWitness ==
    /\ loadManys = <<[keys |-> <<>>, promises |-> <<>>]>>
    /\ LoadManyPromise(1) = [state |-> "resolved", value |-> <<>>]
    /\ batchCalls = <<>>
    /\ ~scheduled

\* ----------------------------------------------------------------------
\* Properties of the model registry (checked under SpecRegistry)
\* ----------------------------------------------------------------------
\* The fields of a schema with what defines each: its type and its modifiers.
FieldsOf(schema) ==
    {<<schema[2][i][1], EntryOf(schema[2][i][2][2], "type"),
       EntryOf(schema[2][i][2][2], "modifiers")>> : i \in DOMAIN schema[2]}

\* Two schemas are equal when they define the same fields the same way.
EqualSchemas(a, b) == FieldsOf(a) = FieldsOf(b)

\* C31 (as claimed): model registry. A createModel call with a registered name
\* and an equal schema returns the registered class; with a registered name and
\* a different schema it throws the registration conflict; both leave the
\* registry unchanged.
C31_ModelRegistry ==
    [][\A name \in ModelNames, schema \in Schemas :
          (CreateModel(name, schema) /\ name \in DOMAIN modelRegistry) =>
             /\ modelRegistry' = modelRegistry
             /\ fnOut' = IF EqualSchemas(modelRegistry[name].schema, schema)
                         THEN <<"returned", modelRegistry[name].class>>
                         ELSE <<"thrown", "Model registration conflict">>]_vars

\* What the code does instead: a name registered with a schema whose value
\* field is not nullable was asked for with a nullable value field, and the
\* registered class was returned.
C31_ConflictMissed ==
    /\ "Thing" \in DOMAIN modelRegistry
    /\ modelRegistry["Thing"].schema = SchemaA
    /\ fnIn = <<"Thing", SchemaNullable>>
    /\ fnOut = <<"returned", modelRegistry["Thing"].class>>

\* The part of C31 that holds: schemas that differ in a field's type or in
\* their fields conflict, and schemas that differ in insertion order only do not.
C31_TypesAndFields ==
    [][\A name \in ModelNames, schema \in Schemas \ {SchemaNullable} :
          (CreateModel(name, schema) /\ name \in DOMAIN modelRegistry
              /\ modelRegistry[name].schema # SchemaNullable) =>
             /\ modelRegistry' = modelRegistry
             /\ fnOut' = IF EqualSchemas(modelRegistry[name].schema, schema)
                         THEN <<"returned", modelRegistry[name].class>>
                         ELSE <<"thrown", "Model registration conflict">>]_vars

\* ----------------------------------------------------------------------
\* Properties of the write-set at commit (checked under SpecWriteSet)
\* ----------------------------------------------------------------------
\* How many invalidateKeysForId calls of the commit were made for (table, id).
InvalidationsOf(tableName, id) ==
    Cardinality({i \in DOMAIN recon.invalidated : recon.invalidated[i] = <<tableName, id>>})

\* C32 (as claimed): write-set reconciliation. After a callback that did not
\* throw, invalidateKeysForId was applied exactly once to each (table, id)
\* written in the transaction and to no other record, ids whose text contains
\* ':' included, under the identity the reads registered their keys with: no
\* key registered for a written id is left.
C32_WriteSetReconciliation ==
    recon.status = "done" =>
       /\ \A i \in DOMAIN recon.invalidated : recon.invalidated[i][1] = TableName
       /\ \A id \in TextIds :
             InvalidationsOf(TableName, id) = (IF id \in recon.written THEN 1 ELSE 0)
       /\ \A id \in recon.written :
             /\ IndexKey(TableName, id) \notin DOMAIN reverseIndex[CacheUnderTest]
             /\ FindByIdKey(id) \notin DOMAIN store[CacheUnderTest]

\* What the code does instead: the transaction wrote id 'a:b' only, its commit
\* invalidated id 'a', and the entry cached for 'a:b' is still in the store.
C32_WrongRecordInvalidated ==
    /\ recon.status = "done"
    /\ recon.written = {"a:b"}
    /\ recon.invalidated = << <<TableName, "a">> >>
    /\ FindByIdKey("a:b") \in DOMAIN store[CacheUnderTest]
    /\ FindByIdKey("a") \notin DOMAIN store[CacheUnderTest]

\* The part of C32 that holds: when no written id holds a ':', each written
\* record is invalidated exactly once and no other record is.
C32_PlainIds ==
    (recon.status = "done" /\ "a:b" \notin recon.written) =>
       /\ \A id \in TextIds :
             InvalidationsOf(TableName, id) = (IF id \in recon.written THEN 1 ELSE 0)
       /\ \A id \in recon.written :
             FindByIdKey(id) \notin DOMAIN store[CacheUnderTest]
       /\ \A id \in TextIds \ recon.written :
             FindByIdKey(id) \in DOMAIN store[CacheUnderTest] =>
                IndexKey(TableName, id) \in DOMAIN reverseIndex[CacheUnderTest]

\* ----------------------------------------------------------------------
\* Further properties of transactions (checked under Spec)
\* ----------------------------------------------------------------------
\* The registry of every transaction context is empty.
C33_RegistryEmpty == \A r \in Runs : txn[r].dataLoaders = <<>>

\* A repository operation of the callback makes and uses no loader: no load is
\* queued and no batch function is called; and the batch function of a run's
\* loader queries the root handle, never the transaction's.
C33_NoLoaderUse ==
    \A r \in Runs :
       /\ txn'[r].ops = txn[r].ops + 1 =>
             /\ calls' = calls
             /\ idBatches' = idBatches
             /\ runs'[r].dataLoaders = runs[r].dataLoaders
       /\ DispatchIds(r) =>
             /\ txn'[r].handles = txn[r].handles
             /\ runs'[r].handles = runs[r].handles \cup {"root"}
             /\ \A i \in DOMAIN idBatches'[Len(idBatches')].callbacks :
                   \A c \in Range(idBatches'[Len(idBatches')].callbacks[i]) :
                      calls[c].run = r /\ calls[c].state = "pending"

\* C33: no batching inside a transaction. No DataLoader is created or used
\* while a transaction context is ambient: the registry of a transaction
\* context stays empty, the callback's operations queue no load, and no batch
\* function runs against a transactional handle.
C33_NoBatchingInTransaction == []C33_RegistryEmpty /\ [][C33_NoLoaderUse]_vars

\* Witness of C33: while a findById of the enclosing run waits in the run's
\* loader, the callback has made two reads, the last a findById, on the
\* transactional handle, and the transaction's registry is empty.
C33_Witness ==
    \E r \in Runs :
       /\ txn[r].status = "open"
       /\ txn[r].ops = 2
       /\ txn[r].lastRead.op = "findById" /\ txn[r].lastRead.handle = "trx"
       /\ txn[r].dataLoaders = <<>>
       /\ LoaderKey \in DOMAIN runs[r].dataLoaders
       /\ runs[r].dataLoaders[LoaderKey].queue # <<>>

\* ----------------------------------------------------------------------
\* Properties of nested transactions (checked under SpecNested)
\* ----------------------------------------------------------------------
\* The contexts that enclose the innermost one.
Enclosing(stack) == SubSeq(stack, 1, Len(stack) - 1)

\* C34: nested transactions. A withTransaction called while a transaction
\* context is ambient opens its transaction on the enclosing transactional
\* handle and runs its callback in a context with its own empty write-set and
\* empty loader registry; writes of the inner scope are not added to the outer
\* write-set; on exit of the inner scope the outer transaction context is
\* ambient again with its write-set unchanged.
C34_NestedTransactions ==
    [][/\ (NestedBegin /\ InTransaction(Innermost(nest.stack))) =>
             /\ nest'.stack[Len(nest'.stack)].openedOn = Innermost(nest.stack).db
             /\ Innermost(nest'.stack).writtenRecords = Some({})
             /\ Innermost(nest'.stack).dataLoaders = <<>>
             /\ Innermost(nest'.stack).db # Innermost(nest.stack).db
             /\ Enclosing(nest'.stack) = nest.stack
       /\ \A id \in Ids :
             NestedWrite(id) =>
                /\ Enclosing(nest'.stack) = Enclosing(nest.stack)
                /\ Innermost(nest'.stack).writtenRecords =
                      Some(Innermost(nest.stack).writtenRecords[1]
                              \cup {IndexKey(TableName, IdText(id))})
       /\ \A threw \in BOOLEAN :
             NestedExit(threw) => nest'.stack = Enclosing(nest.stack)]_vars

\* Witness of C34: the outer callback wrote record 1, an inner transaction
\* opened on the outer handle wrote record 2 and returned, and the outer
\* context is ambient again with record 1 alone in its write-set.
C34_Witness ==
    /\ Len(nest.stack) = 2
    /\ nest.last = "returned"
    /\ nest.left = {IndexKey(TableName, IdText(2))}
    /\ Innermost(nest.stack).db = TrxHandle(1)
    /\ Innermost(nest.stack).writtenRecords = Some({IndexKey(TableName, IdText(1))})

\* ----------------------------------------------------------------------
\* Further properties of the RequestCache (checked under SpecCache)
\* ----------------------------------------------------------------------
\* The keys registered under the records of a write-set.
RegisteredUnder(ri, written) == UNION {ri[indexKey] : indexKey \in written \cap DOMAIN ri}

\* C35: cache entries are removed only explicitly. An entry of the store stays
\* readable with the same value through every call on the cache except a set
\* of its key, a delete of its key, a clear, and an invalidation of a record
\* its key is registered under.
C35_ExplicitRemovalOnly ==
    [][\A key \in DOMAIN store[CacheUnderTest] :
          LET st == store[CacheUnderTest]
              ri == reverseIndex[CacheUnderTest]
              st2 == store'[CacheUnderTest]
          IN (key \in DOMAIN st2 /\ st2[key] = st[key])
             \/ (\E value \in CachedValues : SetEntry(key, value))
             \/ DeleteEntry(key)
             \/ ClearEntries
             \/ (\E id \in Ids :
                    /\ InvalidateKeys(id)
                    /\ key \in RegisteredUnder(ri, {IndexKey(TableName, IdText(id))}))
             \/ (\E written \in WriteSets :
                    InvalidateWritten(written) /\ key \in RegisteredUnder(ri, written))]_vars

\* Witness of C35: invalidateKeysForId('users', 2) removed the entry of record
\* 2, and the entries set for record 1 and for find({}) are readable with the
\* values they were set to.
C35_Witness ==
    /\ fnIn = <<2>>
    /\ fnOut = <<{FindByIdKey(2)}>>
    /\ DOMAIN store[CacheUnderTest] = {FindByIdKey(1), FindKey("{}")}
    /\ store[CacheUnderTest][FindByIdKey(1)].value = MkRow(1, "a")
    /\ store[CacheUnderTest][FindKey("{}")].value = Null

\* The findById calls of id that have not settled, and the entry the run's
\* cache holds for findById(id).
PendingFindById(id) ==
    \E c \in DOMAIN calls : calls[c].id = id /\ calls[c].state = "pending"
FindByIdEntry(r, id) == store[runs[r].cache][FindByIdKey(id)]

\* C36: no stale repopulation by an in-flight read. In a run outside a
\* transaction, once every findById(id) and every update(id) and delete(id)
\* has completed, a row cached for findById(id) is the row the engine holds:
\* no entry keeps a row that was read before an update or delete was applied
\* (only update and delete change or remove a stored row).
C36_NoStaleRepopulation ==
    \A r \in RepoRuns, id \in Ids :
       (/\ runs[r].started
        /\ pkField = IdField
        /\ ~PendingFindById(id)
        /\ CacheHas(store[runs[r].cache], FindByIdKey(id))
        /\ FindByIdEntry(r, id).value # Null)
       => FindByIdEntry(r, id).value = table[id]

\* The state C36 excludes: findById(1) missed the cache and read row 1 in its
\* batch, update or delete of record 1 was applied, the batch settled after
\* it, and the cache holds the row as it was before the write.
C36_StaleEntry ==
    /\ Len(calls) = 1 /\ calls[1].id = 1 /\ calls[1].state = "resolved" /\ ~calls[1].hit
    /\ Len(idBatches) = 1 /\ idBatches[1].state = "fulfilled"
    /\ runWrites.count = 1 /\ creates = <<>>
    /\ pkField = IdField
    /\ CacheHas(store[runs["r1"].cache], FindByIdKey(1))
    /\ FindByIdEntry("r1", 1).value = calls[1].value
    /\ calls[1].value # Null
    /\ calls[1].value # table[1]

\* C37: no stale repopulation across a commit. Once a withTransaction that
\* wrote id X has resolved after its commit, and the findById(X) calls of the
\* enclosing run context have completed, a row the cache holds for findById(X)
\* is the committed row: no entry keeps a row read before the commit.
C37_NoStaleAcrossCommit ==
    \A r \in TxRuns, id \in Ids :
       (/\ txn[r].status = "settled"
        /\ txn[r].outcome = "resolved"
        /\ txn[r].engine = "committed"
        /\ IndexKey(TableName, IdText(id)) \in txn[r].writtenRecords
        /\ ~PendingFindById(id)
        /\ CacheHas(store[runs[r].cache], FindByIdKey(id))
        /\ FindByIdEntry(r, id).value # Null)
       => FindByIdEntry(r, id).value = table[id]

\* The state C37 excludes: findById(1) of the run context missed the cache,
\* its batch read row 1 before the commit and settled after withTransaction
\* had resolved, and the cache holds the row as it was before the commit.
C37_StaleEntry ==
    /\ txn["r1"].status = "settled" /\ txn["r1"].engine = "committed"
    /\ txn["r1"].invalidated = {IndexKey(TableName, IdText(1))}
    /\ Len(calls) = 1 /\ calls[1].id = 1 /\ calls[1].state = "resolved" /\ ~calls[1].hit
    /\ Len(idBatches) = 1 /\ idBatches[1].settledIn = "settled"
    /\ CacheHas(store[runs["r1"].cache], FindByIdKey(1))
    /\ FindByIdEntry("r1", 1).value = MkRow(1, "a")
    /\ table[1] # MkRow(1, "a")

\* The write-set of call t, empty before the call has begun.
WrittenBy(t) == IF conc[t].state = None THEN {} ELSE conc[t].state[1].writtenRecords[1]

\* C38, first half: a write made in the callback of one of two interleaved
\* withTransaction calls is added to that call's write-set and changes nothing
\* of the other call.
C38_OwnWriteSet ==
    [][\A t \in Txs, id \in Ids :
          ConcWrite(t, id) =>
             /\ WrittenBy(t)' = WrittenBy(t) \cup {IndexKey(TableName, IdText(id))}
             /\ \A u \in Txs \ {t} : conc'[u] = conc[u]]_vars

\* C38: concurrent transactions are independent. For two interleaved
\* withTransaction calls of one run, each write is recorded in the write-set
\* of the call that made it only, and when one callback threw and the other
\* returned and committed, the records invalidated in the shared cache are
\* exactly the written records of the committing call, and every entry
\* registered under another record is still cached.
C38_ConcurrentTransactions ==
    \A t \in Txs : \A u \in Txs \ {t} :
       (/\ conc[t].status = "settled" /\ conc[t].threw
        /\ conc[u].status = "settled" /\ ~conc[u].threw /\ conc[u].outcome = "committed")
       => /\ conc[t].invalidated \cup conc[u].invalidated = WrittenBy(u)
          /\ conc[t].invalidated = {}

\* The state C38 excludes: the callback of t1 wrote record 1 and threw a falsy
\* value, the callback of t2 wrote record 2 and returned, and the entry cached
\* for record 1 was removed with that of record 2.
C38_ThrowerInvalidated ==
    /\ conc["t1"].status = "settled" /\ conc["t1"].threw /\ ~Truthy(conc["t1"].error)
    /\ conc["t2"].status = "settled" /\ ~conc["t2"].threw
    /\ WrittenBy("t1") = {IndexKey(TableName, IdText(1))}
    /\ WrittenBy("t2") = {IndexKey(TableName, IdText(2))}
    /\ conc["t1"].invalidated = WrittenBy("t1")
    /\ store[CacheUnderTest] = <<>>

\* C38 for callbacks that throw a truthy value (an Error).
C38_ErrorThrown ==
    \A t \in Txs : \A u \in Txs \ {t} :
       (/\ conc[t].status = "settled" /\ conc[t].threw /\ Truthy(conc[t].error)
        /\ conc[u].status = "settled" /\ ~conc[u].threw /\ conc[u].outcome = "committed")
       => /\ conc[t].invalidated \cup conc[u].invalidated = WrittenBy(u)
          /\ conc[t].invalidated = {}
          /\ \A id \in Ids :
                IndexKey(TableName, IdText(id)) \notin WrittenBy(u) =>
                   (CacheHas(store[CacheUnderTest], FindByIdKey(id))
                    <=> IndexKey(TableName, IdText(id)) \in DOMAIN reverseIndex[CacheUnderTest])

\* C39: DataLoader liveness. When every queued microtask runs and every batch
\* function call eventually settles, every promise returned by load eventually
\* settles, resolved or rejected, also for a key enqueued while an earlier
\* batch call is in flight, and every key in the queue eventually leaves it.
C39_LoaderLiveness ==
    /\ \A c \in 1..MaxLoads :
          (c \in DOMAIN loads) ~> (c \in DOMAIN loads /\ loads[c].state # "pending")
    /\ \A k \in Keys : QueueHas(queue, k) ~> ~QueueHas(queue, k)

\* Witness of C39: a key was enqueued while the first batch call was in
\* flight; it went out in a second batch call, which settled and settled the
\* key's promise while the first call is still in flight, and the queue is empty.
C39_Witness ==
    /\ Len(batchCalls) = 2
    /\ batchCalls[1].state = "pending"
    /\ batchCalls[2].state \in {"fulfilled", "rejected"}
    /\ \E c \in DOMAIN loads :
          /\ c \in UNION {CallbacksAt(2, i) : i \in DOMAIN batchCalls[2].callbacks}
          /\ loads[c].state # "pending"
    /\ queue = <<>>

\* No read of the run is in flight: every findById and find call has settled.
NoReadInFlight ==
    /\ \A c \in DOMAIN calls : calls[c].state # "pending"
    /\ \A f \in DOMAIN finds : finds[f].state # "pending"

\* C40: find cache coherence. In a run outside a transaction whose writes all
\* go through the repository's create, update and delete, a find(where) that
\* is served from the cache while no read is in flight returns the rows a
\* fresh query would return at that moment (schema keyed by 'id').
C40_FindCacheCoherence ==
    [][(Len(finds') = Len(finds) + 1 /\ pkField = IdField /\ NoReadInFlight) =>
          LET new == finds'[Len(finds')]
          IN new.hit => new.value = FindBatch(table, new.where)]_vars

\* The state C40 excludes: find(w) was loaded and cached, create inserted a row
\* that matches w and its own findById completed, and the next find(w) was
\* served the cached rows, without the new row.
C40_StaleFind ==
    /\ pkField = IdField
    /\ Len(finds) = 2 /\ ~finds[1].hit /\ finds[2].hit
    /\ finds[2].where = finds[1].where
    /\ Len(creates) = 1 /\ runWrites.count = 1 /\ runWrites.finds = {1}
    /\ calls[creates[1].call].state = "resolved"
    /\ finds[2].value = finds[1].value
    /\ finds[2].value # FindBatch(table, finds[2].where)

====
